---- MODULE Spec2Model ----
(***************************************************************************)
(* State-machine model of the blog-api server: the User, Author and Post  *)
(* stores, the JWT access guard, the ApiFeatures list pipeline and the    *)
(* soft-delete lifecycle of each resource.                                 *)
(*                                                                         *)
(* Conventions.  Free text (names, emails, titles, query strings) is a    *)
(* sequence of one-character strings; enumerated values (status, role)    *)
(* are strings.  A Date is a positive integer read from the clock `now`;  *)
(* a null Date is NullDate.  A document's _id is its index in its store   *)
(* (documents are never removed).  An id that is a well-formed ObjectId   *)
(* but names no document is an index beyond the store; a string that is   *)
(* no ObjectId at all is BadId.                                            *)
(***************************************************************************)
EXTENDS Integers, Sequences, FiniteSets, TLC

VARIABLES users, authors, posts, now, session, res, calls

vars == <<users, authors, posts, now, session, res, calls>>

(***************************************************************************)
(* Bounds of the model.                                                    *)
(***************************************************************************)
MaxUsers == 2
MaxAuthors == 1
MaxPosts == 2
MaxKept == 2
MaxListed == 2
MaxTime == 2

(***************************************************************************)
(* Values.                                                                 *)
(***************************************************************************)
NullDate == 0
BadId == 0
NoId == 0 - 1
NaN == 0 - 1000000
None == "<none>"
NoText == <<"<none>">>
NoTags == <<NoText>>

Min(a, b) == IF a <= b THEN a ELSE b
Max(a, b) == IF a >= b THEN a ELSE b

\* Math.max / Math.min: NaN if either argument is NaN.
MathMax(a, b) == IF a = NaN \/ b = NaN THEN NaN ELSE Max(a, b)
MathMin(a, b) == IF a = NaN \/ b = NaN THEN NaN ELSE Min(a, b)

\* Math.ceil(a / b) for a >= 0, b >= 1.
CeilDiv(a, b) == (a + b - 1) \div b

(***************************************************************************)
(* Strings.                                                                *)
(***************************************************************************)
toLowerCase(c) ==
  CASE c = "A" -> "a" [] c = "B" -> "b" [] c = "C" -> "c" [] c = "D" -> "d"
    [] c = "E" -> "e" [] c = "F" -> "f" [] c = "G" -> "g" [] c = "H" -> "h"
    [] c = "I" -> "i" [] c = "J" -> "j" [] c = "K" -> "k" [] c = "L" -> "l"
    [] c = "M" -> "m" [] c = "N" -> "n" [] c = "O" -> "o" [] c = "P" -> "p"
    [] c = "Q" -> "q" [] c = "R" -> "r" [] c = "S" -> "s" [] c = "T" -> "t"
    [] c = "U" -> "u" [] c = "V" -> "v" [] c = "W" -> "w" [] c = "X" -> "x"
    [] c = "Y" -> "y" [] c = "Z" -> "z" [] OTHER -> c

Lowercase(s) == [i \in 1..Len(s) |-> toLowerCase(s[i])]

RECURSIVE TrimLeft(_)
TrimLeft(s) == IF s # <<>> /\ Head(s) = " " THEN TrimLeft(Tail(s)) ELSE s

RECURSIVE TrimRight(_)
TrimRight(s) ==
  IF s # <<>> /\ s[Len(s)] = " " THEN TrimRight(SubSeq(s, 1, Len(s) - 1)) ELSE s

Trim(s) == TrimRight(TrimLeft(s))

\* The digit a character denotes, or NaN.
DigitOf(c) ==
  CASE c = "0" -> 0 [] c = "1" -> 1 [] c = "2" -> 2 [] c = "3" -> 3
    [] c = "4" -> 4 [] c = "5" -> 5 [] c = "6" -> 6 [] c = "7" -> 7
    [] c = "8" -> 8 [] c = "9" -> 9 [] OTHER -> NaN

\* The value of the longest prefix of digits of s, continuing from acc;
\* seen tells whether a digit has been read.
RECURSIVE ParseDigits(_, _, _)
ParseDigits(s, acc, seen) ==
  IF s = <<>> \/ DigitOf(Head(s)) = NaN
    THEN (IF seen THEN acc ELSE NaN)
    ELSE ParseDigits(Tail(s), 10 * acc + DigitOf(Head(s)), TRUE)

\* parseInt(s, 10): leading white space skipped, an optional sign, then the
\* longest prefix of digits; NaN when there is no digit.
parseInt(s) ==
  LET t == TrimLeft(s)
  IN  IF t # <<>> /\ Head(t) = "-"
        THEN (LET v == ParseDigits(Tail(t), 0, FALSE)
              IN  IF v = NaN THEN NaN ELSE 0 - v)
        ELSE IF t # <<>> /\ Head(t) = "+"
          THEN ParseDigits(Tail(t), 0, FALSE)
          ELSE ParseDigits(t, 0, FALSE)

\* RegExp(p, "i").test(s) for a pattern of literal characters and ".".
RegexTest(p, s) ==
  \E off \in 0..(Len(s) - Len(p)) :
    \A i \in 1..Len(p) :
      p[i] = "." \/ toLowerCase(p[i]) = toLowerCase(s[off + i])

(***************************************************************************)
(* Responses.  One record shape for every operation; fields an operation  *)
(* does not produce keep the values below.                                 *)
(***************************************************************************)
Response(op, status) ==
  [op |-> op, status |-> status, endpoint |-> None,
   header |-> [kind |-> "none", token |-> <<>>], at |-> 0,
   id |-> NoId, data |-> <<>>, total |-> 0, page |-> 0, limit |-> 0,
   totalPages |-> 0, token |-> <<>>, results |-> 0, skip |-> 0, query |-> <<>>,
   error |-> None, thrown |-> <<>>]

(***************************************************************************)
(* Request query strings.  A query is a record over QueryKeys; a          *)
(* parameter the request does not carry holds Absent(k).                   *)
(***************************************************************************)
QueryKeys ==
  {"page", "limit", "sort", "order", "q", "status", "author", "authorId",
   "tag", "name", "email"}

Absent(k) ==
  IF k \in {"author", "authorId"} THEN NoId
  ELSE IF k \in {"sort", "order", "status"} THEN None
  ELSE NoText

Has(rq, k) == rq[k] # Absent(k)

\* JavaScript truthiness of a parameter: present and not the empty string.
Truthy(rq, k) ==
  /\ Has(rq, k)
  /\ (k \notin {"author", "authorId", "sort", "order", "status"} => rq[k] # <<>>)

(***************************************************************************)
(* Mongoose queries.  The conditions of a Query are a function from field *)
(* names to conditions [op, val]; Query.find(obj) merges obj into them,    *)
(* a key of obj replacing the condition already held for that key.         *)
(***************************************************************************)
Eq(v) == [op |-> "eq", val |-> v]
Ne(v) == [op |-> "ne", val |-> v]
In(S) == [op |-> "in", val |-> S]
Regex(q, fields) == [op |-> "regex", val |-> q, fields |-> fields]

Find(conds, obj) == obj @@ conds

\* Casting a filter value to an ObjectId fails for a string that is none.
CastError(conds) ==
  "author" \in DOMAIN conds /\ conds["author"].op = "eq" /\ conds["author"].val = BadId

\* The schema's setters run on filter values: email is trimmed and
\* lower-cased, name is trimmed.
CastFilter(k, v) ==
  IF k = "email" THEN Lowercase(Trim(v))
  ELSE IF k = "name" THEN Trim(v)
  ELSE v

Holds(doc, k, c) ==
  CASE c.op = "ne" -> doc[k] # c.val
    [] c.op = "in" -> doc[k] \in c.val
    [] c.op = "regex" -> \E f \in c.fields : RegexTest(c.val, doc[f])
    [] c.op = "eq" ->
         IF k \notin DOMAIN doc THEN FALSE
         ELSE IF k = "tags"
           THEN \E i \in 1..Len(doc.tags) : doc.tags[i] = c.val
           ELSE doc[k] = CastFilter(k, c.val)

Matches(doc, conds) == \A k \in DOMAIN conds : Holds(doc, k, conds[k])

\* The _ids of the documents of a store that a query's conditions select.
Matching(store, conds) == {i \in 1..Len(store) : Matches(store[i], conds)}

countDocuments(store, conds) == Cardinality(Matching(store, conds))

(***************************************************************************)
(* ApiFeatures (utils/apiFeatures.ts).  An instance is a record holding   *)
(* the query built so far (conds, sortBy) and the public fields page,      *)
(* limit, skip.                                                            *)
(***************************************************************************)
DefaultSort == [field |-> "createdAt", desc |-> TRUE]

ApiFeatures(conds, reqQuery) ==
  [conds |-> conds, reqQuery |-> reqQuery, sortBy |-> DefaultSort,
   page |-> 1, limit |-> 10, skip |-> 0]

\* Filter keys taken from the request whatever the allow-list says.
FilterKeys_all(rq, allowedFields) ==
  {k \in QueryKeys \ {"page", "limit", "sort", "order", "q"} : Has(rq, k)}

\* The keys of the request query that filter() passes on to find().
FilterKeys(rq, allowedFields) ==
  {k \in QueryKeys \ {"page", "limit", "sort", "order", "q"} :
     Has(rq, k) /\ (allowedFields # {} => k \in allowedFields)}

\* A filter that takes every filter key of the request, allowed or not.
filter_open(f, allowedFields) ==
  LET keys == FilterKeys(f.reqQuery, {})
      renamed(k) == IF k = "tag" /\ Truthy(f.reqQuery, "tag") THEN "tags" ELSE k
      q == [k \in {renamed(x) : x \in keys} |->
              IF k = "tags" THEN Eq(f.reqQuery["tag"]) ELSE Eq(f.reqQuery[k])]
  IN  [f EXCEPT !.conds = Find(f.conds, q)]

filter(f, allowedFields) ==
  LET keys == FilterKeys(f.reqQuery, allowedFields)
      \* special case: tag -> tags (array field), only for a truthy tag
      renamed(k) == IF k = "tag" /\ Truthy(f.reqQuery, "tag") THEN "tags" ELSE k
      q == [k \in {renamed(x) : x \in keys} |->
              IF k = "tags" THEN Eq(f.reqQuery["tag"]) ELSE Eq(f.reqQuery[k])]
  IN  [f EXCEPT !.conds = Find(f.conds, q)]

search(f, fields) ==
  LET q == IF Truthy(f.reqQuery, "q") THEN Trim(f.reqQuery["q"]) ELSE <<>>
  IN  IF q = <<>> \/ fields = {}
        THEN f
        ELSE [f EXCEPT !.conds = Find(f.conds, ("$or" :> Regex(q, fields)))]

AtomLower(s) == IF s = "ASC" THEN "asc" ELSE IF s = "DESC" THEN "desc" ELSE s

sort(f, defaultSort) ==
  LET rq == f.reqQuery
      desc == ~(Has(rq, "order") /\ AtomLower(rq["order"]) = "asc")
  IN  IF Has(rq, "sort")
        THEN [f EXCEPT !.sortBy = [field |-> rq["sort"], desc |-> desc]]
        ELSE [f EXCEPT !.sortBy = defaultSort]

paginate(f, defaultLimit, maxLimit) ==
  LET rq == f.reqQuery
      page == MathMax(IF Truthy(rq, "page") THEN parseInt(rq["page"]) ELSE 1, 1)
      limit == MathMin(
                 MathMax(IF Truthy(rq, "limit") THEN parseInt(rq["limit"])
                         ELSE defaultLimit, 1),
                 maxLimit)
      skip == IF page = NaN \/ limit = NaN THEN NaN ELSE (page - 1) * limit
  IN  [f EXCEPT !.page = page, !.limit = limit, !.skip = skip]

(***************************************************************************)
(* Executing a query.                                                      *)
(***************************************************************************)
\* The value a document is ordered by; a field the document lacks, or a
\* null Date, orders first.
SortValue(doc, field) == IF field \in DOMAIN doc THEN doc[field] ELSE 0

Orderings(S) ==
  {p \in [1..Cardinality(S) -> S] : \A i, j \in 1..Cardinality(S) : i # j => p[i] # p[j]}

\* A page that ignores skip and limit.
Page_all(p, skip, limit) == p

\* Every order of the selected _ids that agrees with the sort; documents
\* with equal sort values come in any order.
Sorted(store, ids, sortBy) ==
  {p \in Orderings(ids) :
     \A i, j \in 1..Len(p) :
       i < j =>
         IF sortBy.desc
           THEN SortValue(store[p[i]], sortBy.field) >= SortValue(store[p[j]], sortBy.field)
           ELSE SortValue(store[p[i]], sortBy.field) <= SortValue(store[p[j]], sortBy.field)}

Page(p, skip, limit) == SubSeq(p, skip + 1, Min(skip + limit, Len(p)))

\* The responses a list operation can give: features is the paginated
\* ApiFeatures, count the ApiFeatures of the count query.
ListResponses(op, store, features, count) ==
  IF CastError(features.conds) \/ CastError(count.conds)
    THEN {Response(op, 500)}
  ELSE IF features.skip = NaN
    THEN {Response(op, 500)}
  ELSE
    LET total == countDocuments(store, count.conds)
    IN  {[Response(op, 200) EXCEPT
            !.page = features.page,
            !.limit = features.limit,
            !.total = total,
            !.totalPages = Max(CeilDiv(total, features.limit), 1),
            !.results = Len(Page(p, features.skip, features.limit)),
            !.data = Page(p, features.skip, features.limit)] :
         p \in Sorted(store, Matching(store, features.conds), features.sortBy)}

(***************************************************************************)
(* Passwords and tokens.  bcrypt.compare(p, bcrypt.hash(p')) is p = p';   *)
(* a token carries the payload it was signed with, its expiry and the     *)
(* secret that signed it.                                                  *)
(***************************************************************************)
JWT_EXPIRES_IN == 1

bcryptHash(password) == [hash |-> password]
bcryptCompare(password, hashed) == hashed.hash = password

signToken(userId, role, t) ==
  [userId |-> userId, role |-> role, exp |-> t + JWT_EXPIRES_IN, secret |-> "JWT_SECRET"]

\* jwt.verify: the signature must be the server's and the token unexpired.
jwtVerify(token, t) == token.secret = "JWT_SECRET" /\ t < token.exp

(***************************************************************************)
(* Users (models/User.ts, services/auth.service.ts,                        *)
(* controllers/user.controller.ts, seed/superAdminSeed.ts).                *)
(***************************************************************************)
Roles == {"admin", "super_admin"}

SEED_USER ==
  [name |-> <<"A", "l", "i", " ", "h", "a", "d", "i">>,
   email |-> <<"s", "u", "p", "e", "r", "a", "d", "m", "i", "n", "@",
               "g", "m", "a", "i", "l", ".", "c", "o", "m">>,
   password |-> <<"1", "2", "3", "4", "1", "3", "4">>,
   role |-> "super_admin"]

\* User.create: the schema trims name, trims and lower-cases email, and
\* defaults role, isActive and deletedAt.
NewUser(name, email, hashed, role, t) ==
  [name |-> Trim(name), email |-> Lowercase(Trim(email)), password |-> hashed,
   role |-> role, isActive |-> TRUE, deletedAt |-> NullDate, createdAt |-> t]

\* User.findOne({ email }): the _ids of the users with that email.
UsersByEmail(us, email) ==
  {i \in 1..Len(us) : us[i].email = Lowercase(Trim(email))}

\* A seed that creates the seed user whatever the store holds.
seedSuperAdmin_insert(us, t) ==
  Append(us, NewUser(SEED_USER.name, SEED_USER.email, bcryptHash(SEED_USER.password),
                     SEED_USER.role, t))

\* The user store seedSuperAdmin leaves.
seedSuperAdmin(us, t) ==
  LET found == UsersByEmail(us, SEED_USER.email)
      hashed == bcryptHash(SEED_USER.password)
  IN  IF found = {}
        THEN Append(us, NewUser(SEED_USER.name, SEED_USER.email, hashed, SEED_USER.role, t))
        ELSE
          LET i == CHOOSE x \in found : TRUE
              existing == us[i]
              shouldUpdate ==
                \/ existing.name # SEED_USER.name
                \/ existing.role # SEED_USER.role
                \/ ~existing.isActive
              updated ==
                IF shouldUpdate
                  THEN [existing EXCEPT !.name = SEED_USER.name, !.role = SEED_USER.role,
                                        !.isActive = TRUE, !.deletedAt = NullDate]
                  ELSE existing
          IN  [us EXCEPT ![i] = [updated EXCEPT !.password = hashed]]

\* The user store deactivateUser leaves for an existing user.
\* A deactivation that clears the flag and leaves deletedAt alone.
deactivated_flag(us, id, t) == [us EXCEPT ![id] = [@ EXCEPT !.isActive = FALSE]]

deactivated(us, id, t) ==
  [us EXCEPT ![id] = [@ EXCEPT !.isActive = FALSE, !.deletedAt = t]]

\* The user store updateUserRole leaves for an existing user.
\* A role change that also switches the user back on.
roleUpdated_revive(us, id, role) ==
  [us EXCEPT ![id] = [@ EXCEPT !.role = role, !.isActive = TRUE, !.deletedAt = NullDate]]

roleUpdated(us, id, role) == [us EXCEPT ![id] = [@ EXCEPT !.role = role]]

(***************************************************************************)
(* Access guard (middlewares/auth.ts) and the route tables.               *)
(***************************************************************************)
\* An Authorization header: kind "none" (no header), "basic" (another
\* scheme) or "bearer"; token is <<>> for a malformed token.
Header(kind, token) == [kind |-> kind, token |-> token]

\* A protect that also turns away the token of a deactivated user.
protect_live(h, t) ==
  IF h.kind # "bearer" THEN 401
  ELSE IF h.token = <<>> \/ ~jwtVerify(h.token[1], t) THEN 401
  ELSE IF ~users[h.token[1].userId].isActive THEN 401
  ELSE 0

\* protect: 401, or 0 when next() is called with req.user set.
protect(h, t) ==
  IF h.kind # "bearer" THEN 401
  ELSE IF h.token = <<>> \/ ~jwtVerify(h.token[1], t) THEN 401
  ELSE 0

adminOnly(h) == IF h.token[1].role \notin {"admin", "super_admin"} THEN 403 ELSE 0

\* superAdminOnly letting admin through as adminOnly does.
superAdminOnly_lax(h) == IF h.token[1].role \notin {"admin", "super_admin"} THEN 403 ELSE 0

superAdminOnly(h) == IF h.token[1].role # "super_admin" THEN 403 ELSE 0

AuthorRoutes ==
  [createAuthor |-> <<"protect", "adminOnly">>,
   getAuthors |-> <<"protect">>,
   getAuthorById |-> <<"protect">>,
   updateAuthor |-> <<"protect", "adminOnly">>,
   deleteAuthor |-> <<"protect", "adminOnly">>]

PostRoutes ==
  [createPost |-> <<"protect", "adminOnly">>,
   getPosts |-> <<"protect">>,
   getPostsByAuthor |-> <<"protect">>,
   getPostById |-> <<"protect">>,
   updatePost |-> <<"protect", "adminOnly">>,
   deletePost |-> <<"protect", "adminOnly">>]

UserRoutes ==
  [getUsers |-> <<"protect", "superAdminOnly">>,
   deactivateUser |-> <<"protect", "superAdminOnly">>,
   updateUserRole |-> <<"protect", "superAdminOnly">>]

Routes == AuthorRoutes @@ PostRoutes @@ UserRoutes

Endpoints == DOMAIN Routes

\* The status the first failing guard of a chain answers, or 0 when every
\* guard calls next().
RECURSIVE RunGuards(_, _, _)
RunGuards(chain, h, t) ==
  IF chain = <<>> THEN 0
  ELSE
    LET verdict ==
          CASE Head(chain) = "protect" -> protect(h, t)
            [] Head(chain) = "adminOnly" -> adminOnly(h)
            [] Head(chain) = "superAdminOnly" -> superAdminOnly(h)
    IN  IF verdict # 0 THEN verdict ELSE RunGuards(Tail(chain), h, t)

(***************************************************************************)
(* Authors (models/Author.ts, services/author.service.ts).                *)
(***************************************************************************)
\* Author.create of createAuthor's payload: status and deletedAt are forced,
\* the schema trims name and trims and lower-cases email, bio defaults "".
NewAuthor(data, t) ==
  [name |-> Trim(data.name), email |-> Lowercase(Trim(data.email)),
   bio |-> IF data.bio = NoText THEN <<>> ELSE data.bio,
   status |-> "active", deletedAt |-> NullDate, createdAt |-> t]

\* The _ids of the authors other than `except` holding an email (the unique
\* index on email).
AuthorsByEmail(as, email, except) ==
  {i \in 1..Len(as) : i # except /\ as[i].email = Lowercase(Trim(email))}

\* Author.findOne({ _id: id, status: { $ne: "deleted" } }) finds a document.
AuthorFound(as, id) == id \in 1..Len(as) /\ as[id].status # "deleted"

\* The author an update payload leaves: only the fields it carries change.
AuthorUpdated(author, data) ==
  [author EXCEPT
     !.name = IF data.name = NoText THEN @ ELSE Trim(data.name),
     !.email = IF data.email = NoText THEN @ ELSE Lowercase(Trim(data.email)),
     !.bio = IF data.bio = NoText THEN @ ELSE data.bio]

\* Post.countDocuments({ author, status: { $ne: "deleted" } }).
\* A count of every post of the author, deleted ones included.
activePostsCount_all(ps, authorId) == countDocuments(ps, ("author" :> Eq(authorId)))

activePostsCount(ps, authorId) ==
  countDocuments(ps, ("author" :> Eq(authorId)) @@ ("status" :> Ne("deleted")))

\* The author deleteAuthor saves.
AuthorDeleted(author, t) == [author EXCEPT !.status = "deleted", !.deletedAt = t]

(***************************************************************************)
(* Posts (models/Post.ts, services/post.service.ts).                      *)
(***************************************************************************)
DEFAULT_POST_IMAGE == <<"h", "t", "t", "p", "s", ":", "/", "/", "i", "m", "g">>

\* payload.image?.trim() || DEFAULT_POST_IMAGE
ImageOf(image) ==
  IF image = NoText \/ Trim(image) = <<>> THEN DEFAULT_POST_IMAGE ELSE Trim(image)

\* The document createPost hands to Post.create, with the schema's
\* defaults and setters applied.  The payload carries no publishedAt.
NewPost(data, t) ==
  [title |-> Trim(data.title), slug |-> Lowercase(Trim(data.slug)),
   content |-> data.content, image |-> ImageOf(data.image),
   status |-> IF data.status = None THEN "draft" ELSE data.status,
   tags |-> IF data.tags = NoTags THEN <<>> ELSE data.tags,
   author |-> data.author,
   publishedAt |-> IF data.status = "published" THEN t ELSE NullDate,
   deletedAt |-> NullDate, createdAt |-> t]

\* The _ids of the posts other than `except` holding a slug (the unique
\* index on slug).
PostsBySlug(ps, slug, except) ==
  {i \in 1..Len(ps) : i # except /\ ps[i].slug = Lowercase(Trim(slug))}

\* Post.findOne({ _id: id, status: { $ne: "deleted" } }) finds a document.
\* A lookup by id alone, whatever the status.
PostFound_any(ps, id) == id \in 1..Len(ps)

PostFound(ps, id) == id \in 1..Len(ps) /\ ps[id].status # "deleted"

\* The post updatePost's payload leaves: the fields it carries, and the
\* publishedAt / deletedAt the service derives from the status it carries.
\* An update that writes the status and leaves both timestamps alone.
PostUpdated_stale(post, data, t) ==
  [post EXCEPT
     !.title = IF data.title = NoText THEN @ ELSE Trim(data.title),
     !.slug = IF data.slug = NoText THEN @ ELSE Lowercase(Trim(data.slug)),
     !.content = IF data.content = NoText THEN @ ELSE data.content,
     !.image = IF data.image = NoText THEN @ ELSE ImageOf(data.image),
     !.tags = IF data.tags = NoTags THEN @ ELSE data.tags,
     !.author = IF data.author = NoId THEN @ ELSE data.author,
     !.status = IF data.status = None THEN @ ELSE data.status]

PostUpdated(post, data, t) ==
  [post EXCEPT
     !.title = IF data.title = NoText THEN @ ELSE Trim(data.title),
     !.slug = IF data.slug = NoText THEN @ ELSE Lowercase(Trim(data.slug)),
     !.content = IF data.content = NoText THEN @ ELSE data.content,
     !.image = IF data.image = NoText THEN @ ELSE ImageOf(data.image),
     !.tags = IF data.tags = NoTags THEN @ ELSE data.tags,
     !.author = IF data.author = NoId THEN @ ELSE data.author,
     !.status = IF data.status = None THEN @ ELSE data.status,
     !.publishedAt = IF data.status = "published" THEN t
                     ELSE IF data.status \in {"draft", "deleted"} THEN NullDate
                     ELSE @,
     !.deletedAt = IF data.status = "deleted" THEN t
                   ELSE IF data.status \in {"draft", "published"} THEN NullDate
                   ELSE @]

\* The post deletePost writes.
\* A soft delete that leaves publishedAt alone.
PostDeleted_kept(post, t) == [post EXCEPT !.status = "deleted", !.deletedAt = t]

PostDeleted(post, t) ==
  [post EXCEPT !.status = "deleted", !.deletedAt = t, !.publishedAt = NullDate]

(***************************************************************************)
(* Requests in flight.  A request whose handler awaits the store more     *)
(* than once, or that runs beside another request, is a call: the record  *)
(* of what its handler holds between two awaits.  pc names the await it   *)
(* is about to make; seen is the document or the count it has read.       *)
(***************************************************************************)
Callers == {1, 2}

Idle ==
  [op |-> None, pc |-> "idle", id |-> NoId, status |-> 0, wrote |-> NullDate,
   seen |-> <<>>, count |-> 0, query |-> <<>>, data |-> <<>>]

(***************************************************************************)
(* Inputs.                                                                 *)
(***************************************************************************)
OtherEmail == <<"a", "@", "b", ".", "c", "o">>
OtherEmailUpper == <<"A", "@", "B", ".", "c", "o">>
OtherName == <<"J", "o">>
OtherPassword == <<"s", "e", "c", "r", "e", "t">>

RegisterPayloads ==
  [name : {OtherName}, email : {SEED_USER.email, OtherEmail, OtherEmailUpper},
   password : {OtherPassword}, role : Roles \cup {None}]

LoginPayloads ==
  [email : {SEED_USER.email, OtherEmail, OtherEmailUpper},
   password : {OtherPassword, SEED_USER.password}]

UserIds == 1..(MaxUsers + 1)

\* Tokens a client can present that this server never signed.
ForgedTokens ==
  {[userId |-> 1, role |-> r, exp |-> MaxTime + 1, secret |-> "guess"] : r \in Roles}

\* The headers a request can carry: none, another scheme, a malformed
\* bearer token, a forged one, or the token the client stored.
Headers ==
  {Header("none", <<>>), Header("basic", <<>>), Header("bearer", <<>>)}
    \cup {Header("bearer", <<t>>) : t \in ForgedTokens}
    \cup (IF session = <<>> THEN {} ELSE {Header("bearer", session)})

UserListQueries ==
  {[k \in QueryKeys |-> Absent(k)]}
    \cup {[[k \in QueryKeys |-> Absent(k)] EXCEPT !["q"] = q] :
            q \in {<<"A", "L", "I">>, <<"@", "b">>}}
    \cup {[[k \in QueryKeys |-> Absent(k)] EXCEPT !["limit"] = <<"1">>, !["page"] = pg] :
            pg \in {<<"1">>, <<"2">>}}

(***************************************************************************)
(* User operations.                                                        *)
(***************************************************************************)
Init ==
  /\ users = seedSuperAdmin(<<>>, 1)
  /\ authors = <<>>
  /\ posts = <<>>
  /\ now = 1
  /\ session = <<>>
  /\ res = Response("start", 0)
  /\ calls = [c \in Callers |-> Idle]

\* Time passes.
Tick ==
  /\ now < MaxTime
  /\ now' = now + 1
  /\ UNCHANGED <<users, authors, posts, session, res, calls>>

\* server.ts start(): the process restarts and seeds the super admin.
Start ==
  /\ users' = seedSuperAdmin(users, now)
  /\ res' = Response("start", 0)
  /\ UNCHANGED <<authors, posts, now, session, calls>>

register(data) ==
  /\ IF UsersByEmail(users, data.email) # {}
       THEN /\ res' = Response("register", 409)
            /\ UNCHANGED users
       ELSE /\ LET role == IF data.role = None THEN "admin" ELSE data.role
                   id == Len(users) + 1
               IN  /\ users' = Append(users, NewUser(data.name, data.email,
                                                      bcryptHash(data.password), role, now))
                   /\ res' = [Response("register", 201) EXCEPT
                                !.id = id, !.token = <<signToken(id, role, now)>>]
  /\ UNCHANGED <<authors, posts, now, session, calls>>

\* A login that tells an unknown email from a wrong password.
loginResponse_telling(us, data, t) ==
  LET found == UsersByEmail(us, data.email)
  IN  IF found = {} THEN [Response("login", 404) EXCEPT !.error = "User not found"]
      ELSE
        LET id == CHOOSE i \in found : TRUE
        IN  IF ~bcryptCompare(data.password, us[id].password)
              THEN [Response("login", 401) EXCEPT !.error = "Invalid email or password"]
              ELSE [Response("login", 200) EXCEPT
                      !.id = id, !.token = <<signToken(id, us[id].role, t)>>]

\* The response login gives; a failure is answered by errorHandler with the
\* status and the message of the AppError thrown.
loginResponse(us, data, t) ==
  LET found == UsersByEmail(us, data.email)
  IN  IF found = {} THEN [Response("login", 401) EXCEPT !.error = "Invalid email or password"]
      ELSE
        LET id == CHOOSE i \in found : TRUE
        IN  IF ~bcryptCompare(data.password, us[id].password)
              THEN [Response("login", 401) EXCEPT !.error = "Invalid email or password"]
              ELSE [Response("login", 200) EXCEPT
                      !.id = id, !.token = <<signToken(id, us[id].role, t)>>]

login(data) ==
  /\ res' = loginResponse(users, data, now)
  /\ UNCHANGED <<users, authors, posts, now, session, calls>>

getUsers(query) ==
  LET base == ("isActive" :> Eq(TRUE)) @@ ("role" :> In({"admin", "super_admin"}))
      features == paginate(sort(search(ApiFeatures(base, query), {"name", "email"}),
                                DefaultSort), 10, 100)
      countQuery == search(ApiFeatures(base, query), {"name", "email"})
  IN  /\ res' \in ListResponses("getUsers", users, features, countQuery)
      /\ UNCHANGED <<users, authors, posts, now, session, calls>>

deactivateUser(id) ==
  /\ IF id \in 1..Len(users)
       THEN /\ users' = deactivated(users, id, now)
            /\ res' = [Response("deactivateUser", 200) EXCEPT !.id = id]
       ELSE /\ res' = [Response("deactivateUser", 404) EXCEPT !.id = id]
            /\ UNCHANGED users
  /\ UNCHANGED <<authors, posts, now, session, calls>>

\* A role change that answers 404 for a deactivated user.
updateUserRole_activeOnly(id, role) ==
  /\ IF id \in 1..Len(users) /\ users[id].isActive
       THEN /\ users' = roleUpdated(users, id, role)
            /\ res' = [Response("updateUserRole", 200) EXCEPT !.id = id]
       ELSE /\ res' = [Response("updateUserRole", 404) EXCEPT !.id = id]
            /\ UNCHANGED users
  /\ UNCHANGED <<authors, posts, now, session, calls>>

updateUserRole(id, role) ==
  /\ IF id \in 1..Len(users)
       THEN /\ users' = roleUpdated(users, id, role)
            /\ res' = [Response("updateUserRole", 200) EXCEPT !.id = id]
       ELSE /\ res' = [Response("updateUserRole", 404) EXCEPT !.id = id]
            /\ UNCHANGED users
  /\ UNCHANGED <<authors, posts, now, session, calls>>

\* client LoginPage / RegisterPage: the token of the response is stored.
setToken ==
  /\ res.op \in {"login", "register"}
  /\ res.token # <<>>
  /\ session' = res.token
  /\ UNCHANGED <<users, authors, posts, now, res, calls>>

\* A request to a protected endpoint runs the guards of its route; the
\* response records the request (endpoint, header, time) and the status a
\* guard answered, or 0 when the request reached validation and the
\* controller.
Request(ep, h) ==
  /\ res' = [Response("request", RunGuards(Routes[ep], h, now)) EXCEPT
               !.endpoint = ep, !.header = h, !.at = now]
  /\ UNCHANGED <<users, authors, posts, now, session, calls>>

(***************************************************************************)
(* Author operations (services/author.service.ts with the status the      *)
(* controller or the error handler answers).                               *)
(***************************************************************************)
createAuthor(data) ==
  /\ IF AuthorsByEmail(authors, data.email, 0) # {}
       THEN \* E11000 duplicate key: an error without statusCode
            /\ res' = Response("createAuthor", 500)
            /\ UNCHANGED authors
       ELSE /\ authors' = Append(authors, NewAuthor(data, now))
            /\ res' = [Response("createAuthor", 201) EXCEPT !.id = Len(authors) + 1]
  /\ UNCHANGED <<users, posts, now, session, calls>>

\* The responses the author listing can give to a query over the stored
\* authors.
AuthorsListed(query) ==
  LET base == ("status" :> Ne("deleted"))
      features == paginate(sort(search(filter(ApiFeatures(base, query), {"name", "email"}),
                                       {"name", "email"}), DefaultSort), 10, 100)
      countQuery == search(filter(ApiFeatures(base, query), {"name", "email"}),
                           {"name", "email"})
  IN  ListResponses("getAuthors", authors, features, countQuery)

getAuthors(query) ==
  /\ res' \in AuthorsListed(query)
  /\ UNCHANGED <<users, authors, posts, now, session, calls>>

getAuthorById(id) ==
  /\ res' = [Response("getAuthorById", IF AuthorFound(authors, id) THEN 200 ELSE 404)
               EXCEPT !.id = id]
  /\ UNCHANGED <<users, authors, posts, now, session, calls>>

updateAuthor(id, data) ==
  /\ IF ~AuthorFound(authors, id)
       THEN /\ res' = [Response("updateAuthor", 404) EXCEPT !.id = id]
            /\ UNCHANGED authors
       ELSE IF data.email # NoText /\ AuthorsByEmail(authors, data.email, id) # {}
         THEN /\ res' = [Response("updateAuthor", 500) EXCEPT !.id = id]
              /\ UNCHANGED authors
         ELSE /\ authors' = [authors EXCEPT ![id] = AuthorUpdated(@, data)]
              /\ res' = [Response("updateAuthor", 200) EXCEPT !.id = id]
  /\ UNCHANGED <<users, posts, now, session, calls>>

\* The status deleteAuthor answers: 404 for no active author, 400 while a
\* non-deleted post references it, else 204.
deleteAuthorStatus(as, ps, id) ==
  IF ~AuthorFound(as, id) THEN 404
  ELSE IF activePostsCount(ps, id) > 0 THEN 400
  ELSE 204

deleteAuthor(id) ==
  /\ res' = [Response("deleteAuthor", deleteAuthorStatus(authors, posts, id)) EXCEPT !.id = id]
  /\ IF deleteAuthorStatus(authors, posts, id) = 204
       THEN authors' = [authors EXCEPT ![id] = AuthorDeleted(@, now)]
       ELSE UNCHANGED authors
  /\ UNCHANGED <<users, posts, now, session, calls>>

(***************************************************************************)
(* Post operations (services/post.service.ts with the status the          *)
(* controller or the error handler answers).                               *)
(***************************************************************************)
\* A createPost without the check of the status.
createPost_any(data) ==
  /\ IF PostsBySlug(posts, data.slug, 0) # {}
       THEN /\ res' = Response("createPost", 500)
            /\ UNCHANGED posts
       ELSE /\ posts' = Append(posts, NewPost(data, now))
            /\ res' = [Response("createPost", 201) EXCEPT !.id = Len(posts) + 1]
  /\ UNCHANGED <<users, authors, now, session, calls>>

createPost(data) ==
  /\ IF data.status = "deleted"
       THEN /\ res' = Response("createPost", 400)
            /\ UNCHANGED posts
       ELSE IF PostsBySlug(posts, data.slug, 0) # {}
         THEN /\ res' = Response("createPost", 500)
              /\ UNCHANGED posts
         ELSE /\ posts' = Append(posts, NewPost(data, now))
              /\ res' = [Response("createPost", 201) EXCEPT !.id = Len(posts) + 1]
  /\ UNCHANGED <<users, authors, now, session, calls>>

\* getPosts maps authorId to author when author is not given.
WithAuthorId(query) ==
  IF Truthy(query, "authorId") /\ ~Truthy(query, "author")
    THEN [query EXCEPT !["author"] = query["authorId"]]
    ELSE query

\* A count query without the search stage.
postsCountQuery_unsearched(query) ==
  filter(ApiFeatures(("status" :> Ne("deleted")), WithAuthorId(query)),
         {"status", "author", "tag"})

\* getPosts' count query: filter and search over the base scope.
postsCountQuery(query) ==
  search(filter(ApiFeatures(("status" :> Ne("deleted")), WithAuthorId(query)),
                {"status", "author", "tag"}),
         {"title", "content", "slug"})

\* getPosts' features: the same two stages, then sort and paginate.
postsFeatures(query) ==
  paginate(sort(search(filter(ApiFeatures(("status" :> Ne("deleted")), WithAuthorId(query)),
                              {"status", "author", "tag"}),
                       {"title", "content", "slug"}),
                DefaultSort), 10, 100)

\* The responses the post listing can give to a query over the stored posts.
PostsListed(query) ==
  ListResponses("getPosts", posts, postsFeatures(query), postsCountQuery(query))

getPosts(query) ==
  /\ res' \in PostsListed(query)
  /\ UNCHANGED <<users, authors, posts, now, session, calls>>

getPostById(id) ==
  /\ res' = [Response("getPostById", IF PostFound(posts, id) THEN 200 ELSE 404)
               EXCEPT !.id = id]
  /\ UNCHANGED <<users, authors, posts, now, session, calls>>

updatePost(id, data) ==
  /\ IF ~PostFound(posts, id)
       THEN /\ res' = [Response("updatePost", 404) EXCEPT !.id = id]
            /\ UNCHANGED posts
       ELSE IF data.slug # NoText /\ PostsBySlug(posts, data.slug, id) # {}
         THEN /\ res' = [Response("updatePost", 500) EXCEPT !.id = id]
              /\ UNCHANGED posts
         ELSE /\ posts' = [posts EXCEPT ![id] = PostUpdated(@, data, now)]
              /\ res' = [Response("updatePost", 200) EXCEPT !.id = id]
  /\ UNCHANGED <<users, authors, now, session, calls>>

deletePost(id) ==
  /\ IF ~PostFound(posts, id)
       THEN /\ res' = [Response("deletePost", 404) EXCEPT !.id = id]
            /\ UNCHANGED posts
       ELSE /\ posts' = [posts EXCEPT ![id] = PostDeleted(@, now)]
            /\ res' = [Response("deletePost", 204) EXCEPT !.id = id]
  /\ UNCHANGED <<users, authors, now, session, calls>>

\* The responses the listing of one author's posts can give to a query.
AuthorPostsListed(authorId, query) ==
  LET base == ("author" :> Eq(authorId)) @@ ("status" :> Ne("deleted"))
      allowed == {"status", "tag"}
      fields == {"title", "content", "slug"}
      features == paginate(sort(search(filter(ApiFeatures(base, query), allowed), fields),
                                DefaultSort), 10, 100)
      countQuery == search(filter(ApiFeatures(base, query), allowed), fields)
  IN  IF authorId = BadId
        THEN {Response("getPostsByAuthor", 400)}
        ELSE {[r EXCEPT !.id = authorId] :
                r \in ListResponses("getPostsByAuthor", posts, features, countQuery)}

getPostsByAuthor(authorId, query) ==
  /\ res' \in AuthorPostsListed(authorId, query)
  /\ UNCHANGED <<users, authors, posts, now, session, calls>>

(***************************************************************************)
(* Inputs of the author and post operations.                               *)
(***************************************************************************)
Jane == <<"J", "a", "n", "e">>
Ann == <<"A", "n", "n">>
JaneEmail == <<"j", "@", "x", ".", "i", "o">>
AnnEmail == <<"a", "@", "x", ".", "i", "o">>

AuthorIds == 1..(MaxAuthors + 1)
PostIds == 1..(MaxPosts + 1)

\* The emails and slugs requests use: a new document takes the next unused
\* one (documents differ in nothing else the operations read), a request
\* can also repeat one already stored.
AuthorEmails == <<JaneEmail, AnnEmail, <<"b", "@", "x", ".", "i", "o">>, <<"c", "@", "x", ".", "i", "o">>>>

Hello == <<"H", "e", "l", "l", "o">>
World == <<"W", "o", "r", "l", "d">>
Content == <<"E", "x", "p", "r", "e", "s", "s", " ", "j", "s">>
NodeTag == <<"n", "o", "d", "e">>
Slugs == <<<<"s", "-", "a">>, <<"s", "-", "b">>, <<"S", "-", "c">>, <<"s", "-", "d">>>>

AuthorPayloads ==
  [name : {Jane}, email : {AuthorEmails[i] : i \in 1..Min(Len(authors) + 1, Len(AuthorEmails))},
   bio : {NoText}]

AuthorUpdates == {[name |-> Ann, email |-> NoText, bio |-> NoText]}

NoPostUpdate ==
  [title |-> NoText, slug |-> NoText, content |-> NoText, image |-> NoText,
   status |-> None, tags |-> NoTags, author |-> NoId]

\* Lifecycle inputs: every status a payload can carry, for either author.
PostPayloads ==
  [title : {Hello}, slug : {Slugs[i] : i \in 1..Min(Len(posts) + 1, Len(Slugs))},
   content : {Content}, image : {NoText},
   status : {None, "draft", "published", "deleted"}, tags : {NoTags},
   author : 1..2]

PostUpdates ==
  {[NoPostUpdate EXCEPT !.status = st] : st \in {"draft", "published", "deleted"}}
    \cup {[NoPostUpdate EXCEPT !.author = a] : a \in 1..2}

CreateAuthor == Len(authors) < MaxAuthors /\ \E data \in AuthorPayloads : createAuthor(data)
UpdateAuthor == \E id \in AuthorIds, data \in AuthorUpdates : updateAuthor(id, data)
DeleteAuthor == \E id \in AuthorIds : deleteAuthor(id)
CreatePost == Len(posts) < MaxPosts /\ \E data \in PostPayloads : createPost(data)
UpdatePost == \E id \in PostIds, data \in PostUpdates : updatePost(id, data)
DeletePost == \E id \in PostIds : deletePost(id)

\* The soft-delete lifecycle under a running clock: at most MaxKept
\* authors and posts in all, every post by author 1.
KeptIds == 1..(MaxKept + 1)

KeptPostPayloads == {data \in PostPayloads : data.author = 1 /\ data.status \in {None, "published"}}

KeptPostUpdates == {[NoPostUpdate EXCEPT !.status = st] : st \in {"draft", "published", "deleted"}}

KeepAuthor == Len(authors) + Len(posts) < MaxKept /\ \E data \in AuthorPayloads : createAuthor(data)
KeepPost == Len(authors) + Len(posts) < MaxKept /\ \E data \in KeptPostPayloads : createPost(data)
GetKeptAuthor == \E id \in KeptIds : getAuthorById(id)
UpdateKeptAuthor == \E id \in KeptIds, data \in AuthorUpdates : updateAuthor(id, data)
DeleteKeptAuthor == \E id \in KeptIds : deleteAuthor(id)
GetKeptPost == \E id \in KeptIds : getPostById(id)
UpdateKeptPost == \E id \in KeptIds, data \in KeptPostUpdates : updatePost(id, data)
DeleteKeptPost == \E id \in KeptIds : deletePost(id)

Register == Len(users) < MaxUsers /\ \E data \in RegisterPayloads : register(data)
Login == \E data \in LoginPayloads : login(data)
GetUsers == \E query \in UserListQueries : getUsers(query)
DeactivateUser == \E id \in UserIds : deactivateUser(id)
UpdateUserRole == \E id \in UserIds, role \in Roles : updateUserRole(id, role)
Guarded == \E ep \in Endpoints, h \in Headers : Request(ep, h)

NextAccess ==
  \/ Tick
  \/ Register
  \/ Login
  \/ setToken
  \/ Guarded

SpecAccess == Init /\ [][NextAccess]_vars

NoQuery == [k \in QueryKeys |-> Absent(k)]

\* List queries for posts: every status filter with every author filter,
\* and the other parameters one at a time.
PostListQueries ==
  {[NoQuery EXCEPT !["status"] = st] : st \in {None, "draft", "published", "deleted"}}
    \cup {[NoQuery EXCEPT !["author"] = a, !["status"] = st] :
            a \in {BadId, 1}, st \in {None, "deleted"}}
    \cup {[NoQuery EXCEPT !["authorId"] = 2], [NoQuery EXCEPT !["tag"] = NodeTag],
          [NoQuery EXCEPT !["q"] = <<"h", "E">>],
          [NoQuery EXCEPT !["limit"] = <<"1">>, !["page"] = <<"2">>]}

\* List queries for one author's posts: the same filters, and an author
\* filter that names another author.
AuthorPostQueries ==
  {[NoQuery EXCEPT !["status"] = st] : st \in {None, "published", "deleted"}}
    \cup {[NoQuery EXCEPT !["author"] = 2], [NoQuery EXCEPT !["authorId"] = 2],
          [NoQuery EXCEPT !["tag"] = NodeTag, !["limit"] = <<"1">>]}

ListedPostPayloads ==
  {[title |-> Hello, slug |-> Slugs[i], content |-> Content, image |-> NoText,
    status |-> st, tags |-> ta[1], author |-> ta[2]] :
     i \in {Min(Len(posts) + 1, Len(Slugs))}, st \in {None, "published"},
     ta \in {<<NoTags, 1>>, <<<<NodeTag>>, 1>>, <<NoTags, 2>>}}

AuthorListQueries ==
  {NoQuery}
    \cup {[NoQuery EXCEPT !["status"] = st] : st \in {"deleted", "active"}}
    \cup {[NoQuery EXCEPT !["name"] = n] : n \in {Jane, Ann}}
    \cup {[NoQuery EXCEPT !["email"] = JaneEmail]}
    \cup {[NoQuery EXCEPT !["q"] = q] : q \in {<<"A", "N">>, <<"@", "x">>}}
    \cup {[NoQuery EXCEPT !["limit"] = <<"1">>, !["page"] = pg] : pg \in {<<"1">>, <<"2">>}}

ListPost == Len(posts) < MaxPosts /\ \E data \in ListedPostPayloads : createPost(data)
UpdateListedPost == \E id \in PostIds, data \in KeptPostUpdates : updatePost(id, data)
GetPosts == \E query \in PostListQueries : getPosts(query)
GetPostsByAuthor ==
  \E authorId \in {BadId, 1, 2}, query \in AuthorPostQueries : getPostsByAuthor(authorId, query)
ListAuthor == Len(authors) < MaxListed /\ \E data \in AuthorPayloads : createAuthor(data)
GetAuthors == \E query \in AuthorListQueries : getAuthors(query)

\* The author and post lifecycle, at one clock reading.
NextContent ==
  \/ CreateAuthor
  \/ UpdateAuthor
  \/ DeleteAuthor
  \/ CreatePost
  \/ UpdatePost
  \/ DeletePost

SpecContent == Init /\ [][NextContent]_vars

\* The soft-delete lifecycle of authors and posts, under a running clock.
NextSoftDelete ==
  \/ Tick
  \/ KeepAuthor
  \/ GetKeptAuthor
  \/ UpdateKeptAuthor
  \/ DeleteKeptAuthor
  \/ KeepPost
  \/ GetKeptPost
  \/ UpdateKeptPost
  \/ DeleteKeptPost

SpecSoftDelete == Init /\ [][NextSoftDelete]_vars

\* Posts and their listings, at one clock reading.
NextPostLists ==
  \/ ListPost
  \/ UpdateListedPost
  \/ DeletePost
  \/ GetPosts
  \/ GetPostsByAuthor

SpecPostLists == Init /\ [][NextPostLists]_vars

\* User accounts: registration, login, administration and the startup
\* seed, under a running clock.
NextUsers ==
  \/ Tick
  \/ Start
  \/ Register
  \/ Login
  \/ DeactivateUser
  \/ UpdateUserRole
  \/ GetUsers

SpecUsers == Init /\ [][NextUsers]_vars

\* Users and authors with their listings, at one clock reading.
NextAccounts ==
  \/ Start
  \/ Register
  \/ DeactivateUser
  \/ UpdateUserRole
  \/ GetUsers
  \/ ListAuthor
  \/ UpdateAuthor
  \/ DeleteAuthor
  \/ GetAuthors

SpecAccounts == Init /\ [][NextAccounts]_vars

\* The whole server.
Next ==
  \/ Tick
  \/ Start
  \/ Register
  \/ Login
  \/ setToken
  \/ Guarded
  \/ DeactivateUser
  \/ UpdateUserRole
  \/ GetUsers
  \/ CreateAuthor
  \/ GetAuthors
  \/ \E id \in AuthorIds : getAuthorById(id)
  \/ UpdateAuthor
  \/ DeleteAuthor
  \/ CreatePost
  \/ GetPosts
  \/ GetPostsByAuthor
  \/ \E id \in PostIds : getPostById(id)
  \/ UpdatePost
  \/ DeletePost

Spec == Init /\ [][Next]_vars

(***************************************************************************)
(* Routes of the mutating endpoints (routes/*.routes.ts): the guards of    *)
(* the router, then validate(schema), then the controller.  An error a    *)
(* middleware throws reaches errorHandler.                                 *)
(***************************************************************************)
\* An error: statusCode is 0 for an error object without that property.
AppError(message, statusCode) ==
  [name |-> "AppError", statusCode |-> statusCode, message |-> message]
ZodError == [name |-> "ZodError", statusCode |-> 0, message |-> "[ { code, path, message } ]"]

\* errorHandler: err.statusCode || 500.
errorHandler(err) == IF err.statusCode # 0 THEN err.statusCode ELSE 500

\* errorHandler: the error of the body is err.message || 'Internal Server Error'.
errorBody(err) == IF err.message # "" THEN err.message ELSE "Internal Server Error"

\* z.string().regex(/^[0-9a-fA-F]{24}$/): BadId stands for every other string.
objectId(id) == id # BadId

\* z.string().email(): a local part, "@" and a domain.
isEmail(s) == \E i \in 2..(Len(s) - 1) : s[i] = "@"

idParamSchema(id) == objectId(id)

createAuthorSchema(body) == Len(body.name) >= 2 /\ isEmail(body.email)

updateAuthorSchema(body) ==
  /\ body.name # NoText => Len(body.name) >= 2
  /\ body.email # NoText => isEmail(body.email)

createPostSchema(body) ==
  /\ Len(body.title) >= 3
  /\ Len(body.slug) >= 3
  /\ Len(body.content) >= 10
  /\ body.status \in {None, "draft", "published", "deleted"}
  /\ objectId(body.author)

updatePostSchema(body) ==
  /\ body.title # NoText => Len(body.title) >= 3
  /\ body.slug # NoText => Len(body.slug) >= 3
  /\ body.content # NoText => Len(body.content) >= 10
  /\ body.status \in {None, "draft", "published", "deleted"}
  /\ body.author # NoId => objectId(body.author)

updateUserRoleSchema(body) == body.role \in {"admin", "super_admin"}

\* A validate that calls next() whatever the request holds.
validate_skip(passes) == 0

\* validate(schema): schema.parse throws a ZodError, or next() is called (0).
validate(passes) == IF passes THEN 0 ELSE errorHandler(ZodError)

\* The answer of a middleware that ended the request.
Rejected(by, ep, h, status) ==
  /\ res' = [Response(by, status) EXCEPT !.endpoint = ep, !.header = h, !.at = now]
  /\ UNCHANGED <<users, authors, posts, now, session, calls>>

\* A request to a mutating route: the router's guards, then the
\* validators, then the controller.
Route(ep, h, passes, controller) ==
  IF RunGuards(Routes[ep], h, now) # 0
    THEN Rejected("request", ep, h, RunGuards(Routes[ep], h, now))
  ELSE IF validate(passes) # 0
    THEN Rejected("validate", ep, h, validate(passes))
  ELSE controller

\* Request bodies, well-formed and not.
ShortName == <<"J">>
ShortTitle == <<"H", "i">>
AuthorBodies == {[name |-> n, email |-> JaneEmail, bio |-> NoText] : n \in {Jane, ShortName}}
AuthorPatches == {[name |-> n, email |-> NoText, bio |-> NoText] : n \in {Ann, ShortName}}
PostBodies ==
  {[title |-> t, slug |-> Slugs[Min(Len(posts) + 1, Len(Slugs))], content |-> Content,
    image |-> NoText, status |-> None, tags |-> NoTags, author |-> 1] :
     t \in {Hello, ShortTitle}}
PostPatches ==
  {[NoPostUpdate EXCEPT !.status = "published"], [NoPostUpdate EXCEPT !.title = ShortTitle]}
RoleBodies == {[role |-> r] : r \in {"admin", "guest"}}
RouteIds == {BadId, 1}

\* The headers of the route requests: none, a forged token, the stored one.
RouteHeaders ==
  {Header("none", <<>>)}
    \cup {Header("bearer", <<t>>) : t \in {x \in ForgedTokens : x.role = "super_admin"}}
    \cup (IF session = <<>> THEN {} ELSE {Header("bearer", session)})

RouteCreateAuthor(h, body) ==
  Route("createAuthor", h, createAuthorSchema(body), createAuthor(body))
RouteUpdateAuthor(h, id, body) ==
  Route("updateAuthor", h, idParamSchema(id) /\ updateAuthorSchema(body), updateAuthor(id, body))
RouteDeleteAuthor(h, id) == Route("deleteAuthor", h, idParamSchema(id), deleteAuthor(id))
RouteCreatePost(h, body) == Route("createPost", h, createPostSchema(body), createPost(body))
RouteUpdatePost(h, id, body) ==
  Route("updatePost", h, idParamSchema(id) /\ updatePostSchema(body), updatePost(id, body))
RouteDeletePost(h, id) == Route("deletePost", h, idParamSchema(id), deletePost(id))
RouteDeactivateUser(h, id) == Route("deactivateUser", h, idParamSchema(id), deactivateUser(id))
RouteUpdateUserRole(h, id, body) ==
  Route("updateUserRole", h, idParamSchema(id) /\ updateUserRoleSchema(body),
        updateUserRole(id, body.role))

RegisterAdmin ==
  /\ Len(users) < MaxUsers
  /\ register([name |-> OtherName, email |-> OtherEmail, password |-> OtherPassword,
               role |-> None])
LoginSeed == login([email |-> SEED_USER.email, password |-> SEED_USER.password])

\* The mutating routes, at one clock reading, with at most MaxKept authors
\* and posts in all.
NextRoutes ==
  \/ RegisterAdmin
  \/ LoginSeed
  \/ setToken
  \/ \E h \in RouteHeaders, body \in AuthorBodies :
       Len(authors) + Len(posts) < MaxKept /\ RouteCreateAuthor(h, body)
  \/ \E h \in RouteHeaders, id \in RouteIds, body \in AuthorPatches :
       RouteUpdateAuthor(h, id, body)
  \/ \E h \in RouteHeaders, id \in RouteIds : RouteDeleteAuthor(h, id)
  \/ \E h \in RouteHeaders, body \in PostBodies :
       Len(authors) + Len(posts) < MaxKept /\ RouteCreatePost(h, body)
  \/ \E h \in RouteHeaders, id \in RouteIds, body \in PostPatches :
       RouteUpdatePost(h, id, body)
  \/ \E h \in RouteHeaders, id \in RouteIds : RouteDeletePost(h, id)
  \/ \E h \in RouteHeaders, id \in RouteIds : RouteDeactivateUser(h, id)
  \/ \E h \in RouteHeaders, id \in RouteIds, body \in RoleBodies :
       RouteUpdateUserRole(h, id, body)

SpecRoutes == Init /\ [][NextRoutes]_vars

\* Tokens and the accounts they were issued to, under a running clock:
\* a client registers or logs in, keeps the token, and presents it after
\* the account was deactivated or its role changed.
TokenPayloads ==
  [name : {OtherName}, email : {OtherEmail}, password : {OtherPassword}, role : Roles]
TokenLogins ==
  {[email |-> SEED_USER.email, password |-> SEED_USER.password],
   [email |-> OtherEmail, password |-> OtherPassword]}
RegisterToken == Len(users) < MaxUsers /\ \E data \in TokenPayloads : register(data)
LoginToken == \E data \in TokenLogins : login(data)
DeactivateHolder == \E id \in 1..MaxUsers : deactivateUser(id)
ChangeHolderRole == \E id \in 1..MaxUsers : updateUserRole(id, "admin")
Present ==
  /\ session # <<>>
  /\ \E ep \in {"getUsers", "deletePost", "getPosts"} : Request(ep, Header("bearer", session))

NextTokens ==
  \/ Tick
  \/ RegisterToken
  \/ LoginToken
  \/ setToken
  \/ DeactivateHolder
  \/ ChangeHolderRole
  \/ Present

SpecTokens == Init /\ [][NextTokens]_vars

\* Clients that hold no super_admin credentials: they register, log in
\* with their own password, keep the token they are given and present it,
\* or no header, to the user routes.
OutsiderLogins == {d \in LoginPayloads : d.password = OtherPassword}
OutsiderHeaders ==
  {Header("none", <<>>)} \cup (IF session = <<>> THEN {} ELSE {Header("bearer", session)})
OutsiderRegister == Len(users) < MaxUsers /\ \E data \in RegisterPayloads : register(data)
OutsiderLogin == \E data \in OutsiderLogins : login(data)
OutsiderRequest ==
  \E h \in OutsiderHeaders, id \in 1..MaxUsers :
    \/ RouteDeactivateUser(h, id)
    \/ \E role \in Roles : RouteUpdateUserRole(h, id, [role |-> role])

NextOutsiders ==
  \/ Tick
  \/ OutsiderRegister
  \/ OutsiderLogin
  \/ setToken
  \/ OutsiderRequest

SpecOutsiders == Init /\ [][NextOutsiders]_vars

\* ApiFeatures.paginate on its own: every page with every limit a request
\* can carry, absent, empty, not a number, zero, negative, fractional, in
\* range and above the maximum.
PageParams ==
  {Absent("page"), <<>>, <<"a", "b", "c">>, <<"0">>, <<"-", "1">>, <<"1">>, <<"2">>,
   <<"3">>, <<"1", "0", "1">>, <<"1", ".", "5">>, <<"2", "x">>}
LimitParams ==
  {Absent("limit"), <<>>, <<"x">>, <<"0">>, <<"-", "5">>, <<"1">>, <<"2">>,
   <<"1", "0">>, <<"1", "0", "0">>, <<"1", "0", "1">>, <<"2", "5", "0">>}
PageQueries ==
  {[NoQuery EXCEPT !["page"] = pg, !["limit"] = lm] : pg \in PageParams, lm \in LimitParams}

\* The response records the query and the page, limit and skip paginate set.
Paginate ==
  /\ \E query \in PageQueries :
       LET f == paginate(ApiFeatures(<<>>, query), 10, 100)
       IN  res' = [Response("paginate", 0) EXCEPT
                     !.query = query, !.page = f.page, !.limit = f.limit, !.skip = f.skip]
  /\ UNCHANGED <<users, authors, posts, now, session, calls>>

NextPaginate == Paginate

SpecPaginate == Init /\ [][NextPaginate]_vars

\* The four list operations over small stores, at one clock reading, with
\* queries that page through the results.
PagedQueries ==
  {NoQuery, [NoQuery EXCEPT !["q"] = <<"z", "z">>], [NoQuery EXCEPT !["limit"] = <<"x">>]}
    \cup {[NoQuery EXCEPT !["limit"] = lm, !["page"] = pg] :
            lm \in {<<"1">>, <<"2">>}, pg \in {<<"1">>, <<"2">>}}
PagedAuthor ==
  /\ Len(authors) < MaxListed
  /\ createAuthor([name |-> Jane, email |-> AuthorEmails[Len(authors) + 1], bio |-> NoText])
PagedPost ==
  /\ Len(posts) < MaxPosts
  /\ createPost([title |-> Hello, slug |-> Slugs[Len(posts) + 1], content |-> Content,
                 image |-> NoText, status |-> "published", tags |-> NoTags, author |-> 1])
PagedGetPosts == \E query \in PagedQueries : getPosts(query)
PagedGetPostsByAuthor == \E query \in PagedQueries : getPostsByAuthor(1, query)
PagedGetAuthors == \E query \in PagedQueries : getAuthors(query)
PagedGetUsers == \E query \in PagedQueries : getUsers(query)

NextLists ==
  \/ RegisterAdmin
  \/ PagedAuthor
  \/ PagedPost
  \/ \E id \in 1..MaxPosts : deletePost(id)
  \/ PagedGetPosts
  \/ PagedGetPostsByAuthor
  \/ PagedGetAuthors
  \/ PagedGetUsers

SpecLists == Init /\ [][NextLists]_vars

\* The author and post listings under queries that carry parameters outside
\* the listing's allow-list, at one clock reading.
FilterQueries ==
  {[NoQuery EXCEPT !["status"] = st, !["author"] = a, !["authorId"] = ai, !["name"] = n] :
     st \in {None, "deleted"}, a \in {NoId, 1}, ai \in {NoId, 2}, n \in {NoText, Jane}}
FilterAuthor ==
  /\ Len(authors) < MaxAuthors
  /\ createAuthor([name |-> Jane, email |-> AuthorEmails[Len(authors) + 1], bio |-> NoText])
FilterPost ==
  /\ Len(posts) < MaxPosts
  /\ \E a \in {1, 2} :
       createPost([title |-> Hello, slug |-> Slugs[Len(posts) + 1], content |-> Content,
                   image |-> NoText, status |-> "published", tags |-> NoTags, author |-> a])
FilterGetPosts == \E query \in FilterQueries : getPosts(query)
FilterGetPostsByAuthor ==
  \E query \in FilterQueries : getPostsByAuthor(1, query)
FilterGetAuthors == \E query \in FilterQueries : getAuthors(query)

NextFilters ==
  \/ FilterAuthor
  \/ FilterPost
  \/ \E id \in 1..MaxPosts : deletePost(id)
  \/ FilterGetPosts
  \/ FilterGetPostsByAuthor
  \/ FilterGetAuthors

SpecFilters == Init /\ [][NextFilters]_vars

\* The three searchable listings under queries that carry a search text, at
\* one clock reading.
SearchTexts ==
  {NoText, <<>>, <<" ">>, <<"h", "E">>, <<"z", "z">>, <<"l", ".">>, <<"@", "x">>}
SearchQueries == {[NoQuery EXCEPT !["q"] = q] : q \in SearchTexts}
SearchPosts == \E query \in SearchQueries : getPosts(query)
SearchAuthors == \E query \in SearchQueries : getAuthors(query)
SearchUsers == \E query \in SearchQueries : getUsers(query)

NextSearch ==
  \/ RegisterAdmin
  \/ FilterAuthor
  \/ FilterPost
  \/ \E id \in 1..MaxPosts : deletePost(id)
  \/ SearchPosts
  \/ SearchAuthors
  \/ SearchUsers

SpecSearch == Init /\ [][NextSearch]_vars

(***************************************************************************)
(* The errors the routes raise over small stores and the answer            *)
(* errorHandler gives to each.  The errors of the storage layer carry a    *)
(* message and no statusCode.                                              *)
(***************************************************************************)
DuplicateKeyError ==
  [name |-> "MongoServerError", statusCode |-> 0,
   message |-> "E11000 duplicate key error collection: blog index: email_1 dup key"]
ObjectIdCastError ==
  [name |-> "CastError", statusCode |-> 0,
   message |-> "Cast to ObjectId failed for value at path author"]

GuardErrors(guard) ==
  CASE guard = "protect" ->
         {AppError("Not authorized (missing token)", 401),
          AppError("Invalid or expired token", 401)}
    [] guard = "adminOnly" -> {AppError("Forbidden (admin only)", 403)}
    [] guard = "superAdminOnly" -> {AppError("Forbidden (super admin only)", 403)}

\* The endpoints whose route runs validate(schema).
Validated ==
  (Endpoints \ {"getAuthors", "getPosts", "getUsers"}) \cup {"register", "login"}

AuthorNotFound == AppError("Author not found", 404)
PostNotFound == AppError("Post not found", 404)
UserNotFound == AppError("User not found", 404)

\* The errors the controller and service of an endpoint raise over the
\* stored documents: a duplicate key needs a stored document to collide
\* with, the refusal to delete an author a post that references one.
ServiceErrors(ep) ==
  LET authorTaken == IF authors # <<>> THEN {DuplicateKeyError} ELSE {}
      slugTaken == IF posts # <<>> THEN {DuplicateKeyError} ELSE {}
      hasPosts ==
        IF \E id \in 1..Len(authors) : AuthorFound(authors, id) /\ activePostsCount(posts, id) > 0
          THEN {AppError("Cannot delete author: this author still has posts. Delete the author's posts first.", 400)}
          ELSE {}
  IN
  CASE ep = "register" -> {AppError("Email already in use", 409)}
    [] ep = "login" -> {AppError("Invalid email or password", 401)}
    [] ep = "createAuthor" -> authorTaken
    [] ep = "getAuthorById" -> {AuthorNotFound}
    [] ep = "updateAuthor" -> {AuthorNotFound} \cup (IF Len(authors) > 1 THEN {DuplicateKeyError} ELSE {})
    [] ep = "deleteAuthor" -> {AuthorNotFound} \cup hasPosts
    [] ep = "createPost" ->
         {AppError("Only image files are allowed", 400),
          AppError("Cannot create a post with status 'deleted'", 400)} \cup slugTaken
    [] ep = "getPosts" -> {ObjectIdCastError}
    [] ep = "getPostsByAuthor" -> {AppError("Invalid author id", 400)}
    [] ep = "getPostById" -> {PostNotFound}
    [] ep = "updatePost" ->
         {AppError("Only image files are allowed", 400), PostNotFound}
           \cup (IF Len(posts) > 1 THEN {DuplicateKeyError} ELSE {})
    [] ep = "deletePost" -> {PostNotFound}
    [] ep \in {"deactivateUser", "updateUserRole"} -> {UserNotFound}
    [] OTHER -> {}

Throws(ep) ==
  (IF ep \in Endpoints
     THEN UNION {GuardErrors(Routes[ep][i]) : i \in 1..Len(Routes[ep])}
     ELSE {})
    \cup (IF ep \in Validated THEN {ZodError} ELSE {})
    \cup ServiceErrors(ep)

\* A request to an endpoint raises one of its errors, at any stage of its
\* route, and errorHandler answers it.
Throw ==
  /\ \E ep \in Endpoints \cup {"register", "login"} : \E err \in Throws(ep) :
       res' = [Response("errorHandler", errorHandler(err)) EXCEPT
                 !.endpoint = ep, !.error = errorBody(err), !.thrown = <<err>>]
  /\ UNCHANGED <<users, authors, posts, now, session, calls>>

NextErrors ==
  \/ RegisterAdmin
  \/ FilterAuthor
  \/ FilterPost
  \/ Throw

SpecErrors == Init /\ [][NextErrors]_vars

(***************************************************************************)
(* Concurrent requests.  Each await of a handler is one step; the steps   *)
(* of two calls interleave in any order.                                   *)
(***************************************************************************)
\* A finished call is forgotten.
Return(c) ==
  /\ calls[c].pc = "done"
  /\ calls' = [calls EXCEPT ![c] = Idle]
  /\ UNCHANGED <<users, authors, posts, now, session, res>>

\* A conditional update that writes whatever the status of the post is.
deletePostUpdate_unconditional(ps, id, t) ==
  IF id \in 1..Len(ps) THEN [ps EXCEPT ![id] = PostDeleted(@, t)] ELSE ps

\* Post.findOneAndUpdate({ _id, status: { $ne: "deleted" } }, ...): one
\* atomic operation of the store; the store it leaves.
deletePostUpdate(ps, id, t) ==
  IF PostFound(ps, id) THEN [ps EXCEPT ![id] = PostDeleted(@, t)] ELSE ps

\* A deletePost request arrives.
CallDeletePost(c, id) ==
  /\ calls[c].pc = "idle"
  /\ calls' = [calls EXCEPT ![c] =
                 [Idle EXCEPT !.op = "deletePost", !.pc = "findOneAndUpdate", !.id = id]]
  /\ UNCHANGED <<users, authors, posts, now, session, res>>

\* deletePost's one await: the update, and the answer from its result.
DeletePostStep(c) ==
  /\ calls[c].op = "deletePost" /\ calls[c].pc = "findOneAndUpdate"
  /\ LET id == calls[c].id
         updated == deletePostUpdate(posts, id, now)
         status == IF updated # posts THEN 204 ELSE 404
     IN  /\ posts' = updated
         /\ calls' = [calls EXCEPT ![c] =
                        [@ EXCEPT !.pc = "done", !.status = status,
                                  !.wrote = IF updated # posts THEN now ELSE NullDate]]
         /\ res' = [Response("deletePost", status) EXCEPT !.id = id]
  /\ UNCHANGED <<users, authors, now, session>>

\* Two clients delete posts that are not deleted when they ask, under a
\* running clock.
NextDeletePost ==
  \/ Tick
  \/ FilterPost
  \/ \E c \in Callers, id \in 1..Len(posts) : PostFound(posts, id) /\ CallDeletePost(c, id)
  \/ \E c \in Callers : DeletePostStep(c)
  \/ \E c \in Callers : Return(c)

SpecDeletePost == Init /\ [][NextDeletePost]_vars

\* A deleteAuthor request arrives.
CallDeleteAuthor(c, id) ==
  /\ calls[c].pc = "idle"
  /\ calls' = [calls EXCEPT ![c] =
                 [Idle EXCEPT !.op = "deleteAuthor", !.pc = "findOne", !.id = id]]
  /\ UNCHANGED <<users, authors, posts, now, session, res>>

\* 1) Author.findOne({ _id, status: { $ne: "deleted" } }), or 404.
DeleteAuthorFindOne(c) ==
  /\ calls[c].op = "deleteAuthor" /\ calls[c].pc = "findOne"
  /\ LET id == calls[c].id
     IN  IF AuthorFound(authors, id)
           THEN /\ calls' = [calls EXCEPT ![c] =
                               [@ EXCEPT !.pc = "countDocuments", !.seen = <<authors[id]>>]]
                /\ UNCHANGED res
           ELSE /\ calls' = [calls EXCEPT ![c] = [@ EXCEPT !.pc = "done", !.status = 404]]
                /\ res' = [Response("deleteAuthor", 404) EXCEPT !.id = id]
  /\ UNCHANGED <<users, authors, posts, now, session>>

\* A check that lets every author be deleted.
canDeleteAuthor_always(count) == TRUE

\* if (activePostsCount > 0) throw: the delete goes on for a count of zero.
canDeleteAuthor(count) == ~(count > 0)

\* 2) Post.countDocuments({ author, status: { $ne: "deleted" } }), and 400
\* when it is positive.  The call keeps the posts it counted over.
DeleteAuthorCount(c) ==
  /\ calls[c].op = "deleteAuthor" /\ calls[c].pc = "countDocuments"
  /\ LET id == calls[c].id
         count == activePostsCount(posts, id)
     IN  IF ~canDeleteAuthor(count)
           THEN /\ calls' = [calls EXCEPT ![c] =
                               [@ EXCEPT !.pc = "done", !.status = 400, !.count = count]]
                /\ res' = [Response("deleteAuthor", 400) EXCEPT !.id = id]
           ELSE /\ calls' = [calls EXCEPT ![c] =
                               [@ EXCEPT !.pc = "save", !.count = count, !.data = posts]]
                /\ UNCHANGED res
  /\ UNCHANGED <<users, authors, posts, now, session>>

\* author.save() of the document read in step 1 with status and deletedAt
\* set: an update of the modified paths of the document with that _id,
\* whatever the store holds for it by now.
authorSaved(as, id, doc, t) ==
  [as EXCEPT ![id] = [@ EXCEPT !.status = AuthorDeleted(doc, t).status,
                               !.deletedAt = AuthorDeleted(doc, t).deletedAt]]

\* 3) author.status = "deleted"; author.deletedAt = new Date(); save().
DeleteAuthorSave(c) ==
  /\ calls[c].op = "deleteAuthor" /\ calls[c].pc = "save"
  /\ LET id == calls[c].id
     IN  /\ authors' = authorSaved(authors, id, calls[c].seen[1], now)
         /\ calls' = [calls EXCEPT ![c] =
                        [@ EXCEPT !.pc = "done", !.status = 204, !.wrote = now]]
         /\ res' = [Response("deleteAuthor", 204) EXCEPT !.id = id]
  /\ UNCHANGED <<users, posts, now, session>>

\* Two clients delete authors that are active when they ask, beside the
\* creation of posts, at one clock reading.
NextDeleteAuthor ==
  \/ FilterAuthor
  \/ FilterPost
  \/ \E c \in Callers, id \in 1..Len(authors) :
        AuthorFound(authors, id) /\ CallDeleteAuthor(c, id)
  \/ \E c \in Callers : DeleteAuthorFindOne(c)
  \/ \E c \in Callers : DeleteAuthorCount(c)
  \/ \E c \in Callers : DeleteAuthorSave(c)
  \/ \E c \in Callers : Return(c)

SpecDeleteAuthor == Init /\ [][NextDeleteAuthor]_vars

\* One client deletes authors beside the creation, re-attribution and
\* deletion of posts, at one clock reading.
NextAuthorRace ==
  \/ FilterAuthor
  \/ FilterPost
  \/ \E id \in 1..MaxPosts, a \in {1, 2} :
        updatePost(id, [NoPostUpdate EXCEPT !.author = a])
  \/ \E id \in 1..MaxPosts : deletePost(id)
  \/ \E id \in 1..Len(authors) : AuthorFound(authors, id) /\ CallDeleteAuthor(1, id)
  \/ DeleteAuthorFindOne(1)
  \/ DeleteAuthorCount(1)
  \/ DeleteAuthorSave(1)
  \/ Return(1)

SpecAuthorRace == Init /\ [][NextAuthorRace]_vars

\* A getPosts request arrives.  Promise.all starts the count and the find
\* together; the store serves them in either order.
CallGetPosts(c, query) ==
  /\ calls[c].pc = "idle"
  /\ calls' = [calls EXCEPT ![c] =
                 [Idle EXCEPT !.op = "getPosts", !.pc = "Promise.all", !.query = query]]
  /\ UNCHANGED <<users, authors, posts, now, session, res>>

\* The reads a call has made.
HasRead(call, read) == \E i \in 1..Len(call.seen) : call.seen[i].read = read

\* The call after one of its two reads: the read is noted with the posts
\* it was made over; after the second read the service returns.
AfterRead(call, read) ==
  LET noted == [call EXCEPT !.seen = Append(@, [read |-> read, store |-> posts])]
  IN  IF Len(noted.seen) = 2 THEN [noted EXCEPT !.pc = "done", !.status = 200] ELSE noted

\* The response of a call that has made both reads.
ListedResponse(op, call, features) ==
  [Response(op, 200) EXCEPT
     !.page = features.page,
     !.limit = features.limit,
     !.total = call.count,
     !.totalPages = Max(CeilDiv(call.count, features.limit), 1),
     !.results = Len(call.data),
     !.data = call.data]

\* A read that fails rejects Promise.all, and errorHandler answers 500.
GetPostsFails(c) ==
  /\ calls' = [calls EXCEPT ![c] = [@ EXCEPT !.pc = "done", !.status = 500]]
  /\ res' = Response("getPosts", 500)

\* countQuery.query.countDocuments()
GetPostsCount(c) ==
  /\ calls[c].op = "getPosts" /\ calls[c].pc = "Promise.all"
  /\ ~HasRead(calls[c], "countDocuments")
  /\ LET count == postsCountQuery(calls[c].query)
         features == postsFeatures(calls[c].query)
         after == AfterRead([calls[c] EXCEPT !.count = countDocuments(posts, count.conds)],
                            "countDocuments")
     IN  IF CastError(count.conds)
           THEN GetPostsFails(c)
           ELSE /\ calls' = [calls EXCEPT ![c] = after]
                /\ IF after.pc = "done"
                     THEN res' = ListedResponse("getPosts", after, features)
                     ELSE UNCHANGED res
  /\ UNCHANGED <<users, authors, posts, now, session>>

\* features.query: find, sort, skip, limit
GetPostsFind(c) ==
  /\ calls[c].op = "getPosts" /\ calls[c].pc = "Promise.all"
  /\ ~HasRead(calls[c], "find")
  /\ LET features == postsFeatures(calls[c].query)
     IN  IF CastError(features.conds) \/ features.skip = NaN
           THEN GetPostsFails(c)
           ELSE \E p \in Sorted(posts, Matching(posts, features.conds), features.sortBy) :
                  LET after == AfterRead([calls[c] EXCEPT
                                            !.data = Page(p, features.skip, features.limit)],
                                         "find")
                  IN  /\ calls' = [calls EXCEPT ![c] = after]
                      /\ IF after.pc = "done"
                           THEN res' = ListedResponse("getPosts", after, features)
                           ELSE UNCHANGED res
  /\ UNCHANGED <<users, authors, posts, now, session>>

\* One client lists posts page by page beside the creation and deletion
\* of posts, at one clock reading.
CountFetchQueries ==
  {NoQuery, [NoQuery EXCEPT !["q"] = <<"-", "A">>], [NoQuery EXCEPT !["limit"] = <<"x">>],
   [NoQuery EXCEPT !["author"] = BadId]}
    \cup {[NoQuery EXCEPT !["limit"] = lm, !["page"] = pg] :
            lm \in {<<"1">>, <<"2">>}, pg \in {<<"1">>, <<"2">>}}

NextCountFetch ==
  \/ PagedPost
  \/ \E id \in 1..MaxPosts : deletePost(id)
  \/ \E query \in CountFetchQueries : CallGetPosts(1, query)
  \/ GetPostsCount(1)
  \/ GetPostsFind(1)
  \/ Return(1)

SpecCountFetch == Init /\ [][NextCountFetch]_vars

(***************************************************************************)
(* C1.  deleteAuthor and the posts that reference the author.              *)
(***************************************************************************)
\* A post of the store that is not deleted references the author.
Referenced(ps, authorId) ==
  \E i \in 1..Len(ps) : ps[i].author = authorId /\ ps[i].status # "deleted"

\* C1: deleteAuthor on an active author succeeds (204, the author becomes
\* deleted with deletedAt set) exactly when no non-deleted post references
\* the author; while one does it answers 400 and leaves the author and
\* every post as they were.  The author stays active after a refusal, so a
\* deleteAuthor after the posts are soft-deleted succeeds.
C1_DeleteAuthorGuard ==
  [][res'.op = "deleteAuthor" /\ AuthorFound(authors, res'.id) =>
       IF Referenced(posts, res'.id)
         THEN res'.status = 400 /\ authors' = authors /\ posts' = posts
         ELSE /\ res'.status = 204
              /\ authors'[res'.id].status = "deleted"
              /\ authors'[res'.id].deletedAt # NullDate
              /\ posts' = posts]_vars

\* An author is deleted although posts reference it: all of them are
\* soft-deleted.
C1_Witness ==
  /\ res.op = "deleteAuthor" /\ res.status = 204
  /\ authors[res.id].status = "deleted"
  /\ \E i \in 1..Len(posts) : posts[i].author = res.id /\ posts[i].status = "deleted"

(***************************************************************************)
(* C2.  Deleted posts and the post listings.                               *)
(***************************************************************************)
\* C2: for every query, getPosts and getPostsByAuthor return no deleted
\* post, and getPostsByAuthor returns only posts of the requested author.
C2_ListsHideDeleted ==
  res.op \in {"getPosts", "getPostsByAuthor"} /\ res.status = 200 =>
    \A k \in 1..Len(res.data) :
      /\ posts[res.data[k]].status # "deleted"
      /\ res.op = "getPostsByAuthor" => posts[res.data[k]].author = res.id

(***************************************************************************)
(* C3.  Operations by id on a deleted post or author.                      *)
(***************************************************************************)
\* C3: get-by-id, update and delete of a deleted post or author answer 404,
\* and no operation changes a field of a deleted post or author: a second
\* delete keeps deletedAt, and no update brings the record back.
C3_DeletedIsGone ==
  [][/\ (/\ now' = now
         /\ res'.op \in {"getPostById", "updatePost", "deletePost"}
         /\ res'.id \in 1..Len(posts)
         /\ posts[res'.id].status = "deleted")
          => res'.status = 404 /\ posts' = posts
     /\ (/\ now' = now
         /\ res'.op \in {"getAuthorById", "updateAuthor", "deleteAuthor"}
         /\ res'.id \in 1..Len(authors)
         /\ authors[res'.id].status = "deleted")
          => res'.status = 404 /\ authors' = authors
     /\ \A i \in 1..Len(posts) : posts[i].status = "deleted" => posts'[i] = posts[i]
     /\ \A i \in 1..Len(authors) : authors[i].status = "deleted" => authors'[i] = authors[i]
    ]_vars

\* A post deleted at an earlier time is deleted again: 404, deletedAt kept.
C3_Witness ==
  /\ res.op = "deletePost" /\ res.status = 404
  /\ res.id \in 1..Len(posts)
  /\ posts[res.id].status = "deleted"
  /\ posts[res.id].deletedAt # NullDate
  /\ posts[res.id].deletedAt < now

(***************************************************************************)
(* C4.  Post status and its timestamps.                                    *)
(***************************************************************************)
\* C4: in every state reached by createPost, updatePost and deletePost,
\* every post has publishedAt set exactly when its status is published and
\* deletedAt set exactly when its status is deleted.
C4_PostTimestamps ==
  \A i \in 1..Len(posts) :
    /\ posts[i].publishedAt # NullDate <=> posts[i].status = "published"
    /\ posts[i].deletedAt # NullDate <=> posts[i].status = "deleted"

\* A published post and a deleted post, the last operation a delete.
C4_Witness ==
  /\ res.op = "deletePost" /\ res.status = 204
  /\ posts[res.id].publishedAt = NullDate /\ posts[res.id].deletedAt # NullDate
  /\ \E i \in 1..Len(posts) : posts[i].status = "published" /\ posts[i].publishedAt # NullDate

(***************************************************************************)
(* C5.  Access control of the Author, Post and User endpoints.            *)
(***************************************************************************)
AdminTier ==
  {"createAuthor", "updateAuthor", "deleteAuthor", "createPost", "updatePost", "deletePost"}
AnyRole == {"getAuthors", "getAuthorById", "getPosts", "getPostById", "getPostsByAuthor"}
SuperAdminTier == {"getUsers", "deactivateUser", "updateUserRole"}

\* The header carries a bearer token that verifies at time t.
ValidBearer(h, t) == h.kind = "bearer" /\ h.token # <<>> /\ jwtVerify(h.token[1], t)

\* The status the claim gives a request: 401 without a verified bearer
\* token, else 403 when the role is below the endpoint's tier, else passed on.
ClaimedStatus(ep, h, t) ==
  IF ~ValidBearer(h, t) THEN 401
  ELSE IF ep \in AdminTier /\ h.token[1].role \notin {"admin", "super_admin"} THEN 403
  ELSE IF ep \in SuperAdminTier /\ h.token[1].role # "super_admin" THEN 403
  ELSE 0

\* C5: every request to an Author, Post or User endpoint is answered 401
\* unless it carries a bearer token that verifies; with one, create, update
\* and delete of authors and posts pass for admin and super_admin, list and
\* get pass for every role, and the user endpoints answer 403 to every role
\* but super_admin.
C5_AccessControl ==
  res.op = "request" => res.status = ClaimedStatus(res.endpoint, res.header, res.at)

\* An admin's token is answered 403 on the user list.
C5_Witness ==
  /\ res.op = "request" /\ res.endpoint = "getUsers" /\ res.status = 403
  /\ ValidBearer(res.header, res.at) /\ res.header.token[1].role = "admin"

(***************************************************************************)
(* C6.  Login of a deactivated user.                                       *)
(***************************************************************************)
\* C6: no login of a deactivated user succeeds: a login that answers 200
\* with a token is the login of an active user.
C6_NoLoginWhenInactive ==
  res.op = "login" /\ res.status = 200 => users[res.id].isActive

(***************************************************************************)
(* C7.  Activation is one-way.                                             *)
(***************************************************************************)
\* C7 as stated: once isActive is false it stays false under every step,
\* the startup seed included.
C7_NeverReactivated ==
  [][\A i \in 1..Len(users) : ~users[i].isActive => ~users'[i].isActive]_vars

\* C7: once isActive is false it stays false under register, login,
\* deactivateUser and updateUserRole; the startup seed is the one step
\* that sets it back to true, and only for the user with the seed email.
C7_OnlySeedReactivates ==
  [][\A i \in 1..Len(users) :
       ~users[i].isActive /\ users'[i].isActive =>
         res'.op = "start" /\ users[i].email = SEED_USER.email]_vars

\* The role of a deactivated user is changed and the user is still inactive.
C7_Witness ==
  /\ res.op = "updateUserRole" /\ res.status = 200
  /\ res.id \in 1..Len(users)
  /\ ~users[res.id].isActive

(***************************************************************************)
(* C8.  Deactivating a user twice.                                         *)
(***************************************************************************)
\* C8: deactivateUser on a user that is already inactive answers 404 and
\* keeps the deletedAt of the first deactivation.
C8_SecondDeactivation ==
  [][(/\ now' = now
      /\ res'.op = "deactivateUser"
      /\ res'.id \in 1..Len(users)
      /\ ~users[res'.id].isActive)
       => /\ res'.status = 404
          /\ users'[res'.id].deletedAt = users[res'.id].deletedAt]_vars

(***************************************************************************)
(* C9.  Deleted authors and inactive users in the listings.                *)
(***************************************************************************)
\* C9: for every query, getAuthors returns no deleted author and getUsers
\* returns no inactive user.
C9_ListsHideRemoved ==
  /\ res.op = "getAuthors" /\ res.status = 200 =>
       \A k \in 1..Len(res.data) : authors[res.data[k]].status # "deleted"
  /\ res.op = "getUsers" /\ res.status = 200 =>
       \A k \in 1..Len(res.data) : users[res.data[k]].isActive

\* A listing of authors while a deleted author and an inactive user are
\* stored returns one author, the active one.
C9_Witness ==
  /\ res.op = "getAuthors" /\ res.status = 200
  /\ Len(res.data) = 1
  /\ \E i \in 1..Len(authors) : authors[i].status = "deleted"
  /\ \E i \in 1..Len(users) : ~users[i].isActive

(***************************************************************************)
(* C10.  Status flags and deletedAt of authors and users.                  *)
(***************************************************************************)
\* C10: every author is deleted exactly when its deletedAt is set, and
\* every user is inactive exactly when its deletedAt is set.
C10_FlagsAndDeletedAt ==
  /\ \A i \in 1..Len(authors) :
       authors[i].status = "deleted" <=> authors[i].deletedAt # NullDate
  /\ \A i \in 1..Len(users) :
       ~users[i].isActive <=> users[i].deletedAt # NullDate

\* A user has just been deactivated, and an author is deleted.
C10_Witness ==
  /\ res.op = "deactivateUser" /\ res.status = 200
  /\ ~users[res.id].isActive /\ users[res.id].deletedAt # NullDate
  /\ \E i \in 1..Len(authors) :
       authors[i].status = "deleted" /\ authors[i].deletedAt # NullDate

(***************************************************************************)
(* C11.  The author a post references.                                     *)
(***************************************************************************)
\* C11: the author of every stored post is the id of a stored author:
\* createPost, and updatePost when it sets author, store only the id of an
\* existing Author record.
C11_AuthorExists ==
  \A i \in 1..Len(posts) : posts[i].author \in 1..Len(authors)

(***************************************************************************)
(* C12.  createPost and the status deleted.                                *)
(***************************************************************************)
\* C12: createPost with status deleted answers 400 and stores no post;
\* every post createPost stores has status draft or published and
\* deletedAt null.
C12_CreateRejectsDeleted ==
  [][res'.op = "createPost" =>
       /\ res'.status # 400 =>
            \A data \in {d \in PostPayloads : d.status = "deleted"} : ~createPost(data)
       /\ res'.status = 400 => posts' = posts
       /\ posts' # posts =>
            /\ posts' = Append(posts, posts'[Len(posts')])
            /\ posts'[Len(posts')].status \in {"draft", "published"}
            /\ posts'[Len(posts')].deletedAt = NullDate]_vars

\* A createPost was answered 400 while a post created earlier is stored.
C12_Witness ==
  /\ res.op = "createPost" /\ res.status = 400
  /\ posts # <<>>
  /\ \A i \in 1..Len(posts) : posts[i].status # "deleted"

(***************************************************************************)
(* C13.  updatePost with a status.                                         *)
(***************************************************************************)
\* The lifecycle fields of a post.
Lifecycle(post) ==
  [status |-> post.status, publishedAt |-> post.publishedAt, deletedAt |-> post.deletedAt]

\* C13: on a non-deleted post, updatePost with status published leaves
\* publishedAt set and deletedAt null, with status draft it leaves
\* publishedAt null, and with status deleted it leaves the lifecycle fields
\* deletePost leaves: status deleted, deletedAt set, publishedAt null.
C13_UpdateStatus ==
  [][res'.op = "updatePost" /\ res'.status = 200 =>
       \A data \in PostUpdates :
         updatePost(res'.id, data) =>
           LET old == posts[res'.id]
               new == posts'[res'.id]
           IN  /\ data.status = "published" =>
                    /\ new.status = "published"
                    /\ new.publishedAt # NullDate
                    /\ new.deletedAt = NullDate
               /\ data.status = "draft" =>
                    new.status = "draft" /\ new.publishedAt = NullDate
               /\ data.status = "deleted" =>
                    /\ new.status = "deleted"
                    /\ new.deletedAt # NullDate
                    /\ new.publishedAt = NullDate
                    /\ Lifecycle(new) = Lifecycle(PostDeleted(old, now))]_vars

\* updatePost moved a post to deleted.
C13_Witness ==
  /\ res.op = "updatePost" /\ res.status = 200
  /\ posts[res.id].status = "deleted"
  /\ posts[res.id].publishedAt = NullDate
  /\ posts[res.id].deletedAt # NullDate

(***************************************************************************)
(* C14.  Failed requests write nothing.                                    *)
(***************************************************************************)
\* The request fails authentication, the role check or validation.
Fails(ep, h, passes) == ClaimedStatus(ep, h, now) # 0 \/ ~passes

\* C14: a request to a mutating endpoint that fails authentication, the
\* role check or validation changes no stored user, author or post: a step
\* that changes a store is never the step of such a request.
C14_FailFast ==
  [][users' # users \/ authors' # authors \/ posts' # posts =>
       \A h \in RouteHeaders, id \in RouteIds :
         /\ \A body \in AuthorBodies :
              ~(Fails("createAuthor", h, createAuthorSchema(body)) /\ RouteCreateAuthor(h, body))
         /\ \A body \in AuthorPatches :
              ~(/\ Fails("updateAuthor", h, idParamSchema(id) /\ updateAuthorSchema(body))
                /\ RouteUpdateAuthor(h, id, body))
         /\ ~(Fails("deleteAuthor", h, idParamSchema(id)) /\ RouteDeleteAuthor(h, id))
         /\ \A body \in PostBodies :
              ~(Fails("createPost", h, createPostSchema(body)) /\ RouteCreatePost(h, body))
         /\ \A body \in PostPatches :
              ~(/\ Fails("updatePost", h, idParamSchema(id) /\ updatePostSchema(body))
                /\ RouteUpdatePost(h, id, body))
         /\ ~(Fails("deletePost", h, idParamSchema(id)) /\ RouteDeletePost(h, id))
         /\ ~(Fails("deactivateUser", h, idParamSchema(id)) /\ RouteDeactivateUser(h, id))
         /\ \A body \in RoleBodies :
              ~(/\ Fails("updateUserRole", h, idParamSchema(id) /\ updateUserRoleSchema(body))
                /\ RouteUpdateUserRole(h, id, body))]_vars

\* An admin's request to change a role was refused by the role check while
\* an author is stored.
C14_Witness ==
  /\ res.op = "request" /\ res.endpoint = "updateUserRole" /\ res.status = 403
  /\ ValidBearer(res.header, res.at)
  /\ authors # <<>>

(***************************************************************************)
(* C16.  The status of a validation failure.                               *)
(***************************************************************************)
\* C16: a request whose body or params fail the validation schema of the
\* endpoint is answered 400.
C16_Validation400 ==
  res.op = "validate" => res.status = 400

(***************************************************************************)
(* C15.  Expiry is the only invalidation of a token.                       *)
(***************************************************************************)
\* C15: a request that carries a token signed by the server and not yet
\* expired is never answered 401, whatever happened to the user since the
\* token was issued, and the role check that follows reads the role
\* encoded in the token: 403 exactly when that role is below the tier of
\* the endpoint.
C15_OnlyExpiryInvalidates ==
  (/\ res.op = "request"
   /\ res.header.kind = "bearer"
   /\ res.header.token # <<>>
   /\ res.header.token[1].secret = "JWT_SECRET"
   /\ res.at < res.header.token[1].exp)
    => /\ res.status # 401
       /\ res.status = 403 <=>
            \/ res.endpoint \in SuperAdminTier /\ res.header.token[1].role # "super_admin"
            \/ res.endpoint \in AdminTier
                 /\ res.header.token[1].role \notin {"admin", "super_admin"}

\* The token of a super_admin passes the guards of the user list after the
\* user was deactivated and made an admin.
C15_Witness ==
  /\ res.op = "request" /\ res.endpoint = "getUsers" /\ res.status = 0
  /\ res.header.token[1].role = "super_admin"
  /\ ~users[res.header.token[1].userId].isActive
  /\ users[res.header.token[1].userId].role = "admin"

(***************************************************************************)
(* C17.  Duplicates of a unique field.                                     *)
(***************************************************************************)
\* C17: register with the email of a stored user, createAuthor and
\* updateAuthor with the email of another stored author, and createPost
\* with the slug of a stored post are answered 409 and store nothing; no
\* two users and no two authors share an email.
C17_Conflict409 ==
  [][/\ res'.op = "register" =>
          \A data \in RegisterPayloads :
            register(data) /\ UsersByEmail(users, data.email) # {} =>
              res'.status = 409 /\ users' = users
     /\ res'.op = "createAuthor" =>
          \A data \in AuthorPayloads :
            createAuthor(data) /\ AuthorsByEmail(authors, data.email, 0) # {} =>
              res'.status = 409 /\ authors' = authors
     /\ res'.op = "updateAuthor" =>
          \A id \in AuthorIds, data \in AuthorUpdates :
            (/\ updateAuthor(id, data)
             /\ AuthorFound(authors, id)
             /\ data.email # NoText
             /\ AuthorsByEmail(authors, data.email, id) # {}) =>
              res'.status = 409 /\ authors' = authors
     /\ res'.op = "createPost" =>
          \A data \in PostPayloads :
            (/\ createPost(data)
             /\ data.status # "deleted"
             /\ PostsBySlug(posts, data.slug, 0) # {}) =>
              res'.status = 409 /\ posts' = posts
     /\ \A i, j \in 1..Len(users') : users'[i].email = users'[j].email => i = j
     /\ \A i, j \in 1..Len(authors') : authors'[i].email = authors'[j].email => i = j
    ]_vars

(***************************************************************************)
(* C18.  The range of page, limit and skip.                                *)
(***************************************************************************)
\* C18: for every page and limit parameter, paginate yields a page of at
\* least 1, a limit from 1 to 100, and skip = (page - 1) * limit.
C18_PaginateRange ==
  res.op = "paginate" =>
    /\ res.page \in Nat /\ res.page >= 1
    /\ res.limit \in 1..100
    /\ res.skip = (res.page - 1) * res.limit

PostRecognized == {"page", "limit", "sort", "order", "q", "status", "author", "tag"}
AuthorRecognized == {"page", "limit", "sort", "order", "q", "name", "email"}
\* The query that agrees with q on the given parameters and carries no other.
Only(q, keys) == [k \in QueryKeys |-> IF k \in keys THEN q[k] ELSE Absent(k)]

\* C20 as stated: a list request is answered as the request that agrees with
\* it on page, limit, sort, order, q and the allow-list of the resource
\* (posts: status, author, tag; authors: name, email) and carries nothing
\* else, so that two requests that agree on these are answered alike and
\* neither is rejected.
C20_UnrecognizedIgnored ==
  \A q \in FilterQueries :
    /\ PostsListed(q) = PostsListed(Only(q, PostRecognized))
    /\ \A r \in PostsListed(q) : r.status = 200
    /\ \A authorId \in {1, 2} :
         AuthorPostsListed(authorId, q) = AuthorPostsListed(authorId, Only(q, PostRecognized))
    /\ AuthorsListed(q) = AuthorsListed(Only(q, AuthorRecognized))

\* C20: a list request is answered as the request that agrees with it on
\* page, limit, sort, order, q and the allow-list of the resource and
\* carries nothing else, where the listing of all posts counts authorId
\* with its allow-list, reading it as author when author is not given; two
\* requests that agree on these are answered alike and neither is rejected.
C20_UnrecognizedIgnoredButAuthorId ==
  \A q \in FilterQueries :
    /\ PostsListed(q) = PostsListed(Only(q, PostRecognized \cup {"authorId"}))
    /\ \A r \in PostsListed(q) : r.status = 200
    /\ \A authorId \in {1, 2} :
         AuthorPostsListed(authorId, q) = AuthorPostsListed(authorId, Only(q, PostRecognized))
    /\ AuthorsListed(q) = AuthorsListed(Only(q, AuthorRecognized))

\* A listing of posts answered with one of two stored posts, to a query
\* that filters by author and carries a name parameter, and equally to that
\* query without the name.
C20_Witness ==
  /\ res.op = "getPosts" /\ res.status = 200
  /\ Len(posts) = 2 /\ Len(res.data) = 1
  /\ \E q \in FilterQueries :
       /\ Has(q, "author") /\ Has(q, "name")
       /\ res \in PostsListed(q)
       /\ res \in PostsListed(Only(q, PostRecognized \cup {"authorId"}))

(***************************************************************************)
(* C21.  Search by q.                                                      *)
(***************************************************************************)
\* s contains q as a substring, letter case apart.
Contains(q, s) ==
  \E off \in 0..(Len(s) - Len(q)) :
    \A i \in 1..Len(q) : toLowerCase(q[i]) = toLowerCase(s[off + i])

\* The records a search for q keeps: all of them when q is absent, empty or
\* white space, else those with a search field that contains q.
Searched(query, doc, fields) ==
  IF ~Has(query, "q") \/ Trim(query["q"]) = <<>>
    THEN TRUE
    ELSE \E f \in fields : Contains(query["q"], doc[f])

Range(seq) == {seq[i] : i \in 1..Len(seq)}

\* C21: a list operation with a search text q returns exactly the in-scope
\* records that have a search field containing q as a case-insensitive
\* substring (posts: title, content, slug; authors and users: name, email),
\* and with q absent, empty or white space it returns every in-scope record.
C21_SearchSubstring ==
  \A query \in SearchQueries :
    /\ \A r \in PostsListed(query) :
         /\ r.status = 200
         /\ Range(r.data) =
              {i \in 1..Len(posts) :
                 /\ posts[i].status # "deleted"
                 /\ Searched(query, posts[i], {"title", "content", "slug"})}
    /\ \A r \in AuthorsListed(query) :
         /\ r.status = 200
         /\ Range(r.data) =
              {i \in 1..Len(authors) :
                 /\ authors[i].status # "deleted"
                 /\ Searched(query, authors[i], {"name", "email"})}

(***************************************************************************)
(* C22.  The startup seed is an idempotent upsert.                         *)
(***************************************************************************)
\* C22: a run of seedSuperAdmin, from any reachable store, leaves exactly
\* one user with the seed email, with role super_admin, active and with no
\* deletion date; a second run right after it adds no user and changes no
\* user's role, isActive or deletedAt.
C22_SeedIdempotent ==
  [][res'.op = "start" /\ users' = seedSuperAdmin(users, now) =>
       LET seeds == UsersByEmail(users', SEED_USER.email)
           again == seedSuperAdmin(users', now')
       IN  /\ Cardinality(seeds) = 1
           /\ \A i \in seeds :
                /\ users'[i].role = "super_admin"
                /\ users'[i].isActive
                /\ users'[i].deletedAt = NullDate
           /\ Len(again) = Len(users')
           /\ \A i \in 1..Len(users') :
                /\ again[i].role = users'[i].role
                /\ again[i].isActive = users'[i].isActive
                /\ again[i].deletedAt = users'[i].deletedAt]_vars

\* The server has restarted at a later clock reading over a store that
\* holds a second, deactivated user; the seed user is active.
C22_Witness ==
  /\ res.op = "start" /\ now > 1
  /\ Len(users) = 2 /\ ~users[2].isActive
  /\ \E i \in UsersByEmail(users, SEED_USER.email) :
       users[i].isActive /\ users[i].role = "super_admin"

(***************************************************************************)
(* C23.  Unknown failures at the error handler.                            *)
(***************************************************************************)
\* C23: errorHandler answers an error that carries no status code with
\* status 500 and a body whose error is not the raw message of that error.
C23_UnknownErrorsHidden ==
  res.op = "errorHandler" /\ res.thrown[1].statusCode = 0 =>
    /\ res.status = 500
    /\ res.error # res.thrown[1].message

(***************************************************************************)
(* C24.  Two concurrent deletePost requests.                               *)
(***************************************************************************)
\* C24: when two deletePost requests for one post, both made while the post
\* was not deleted, have both finished, one was answered 204 and the other
\* 404, exactly one of them wrote, and the post is deleted with the
\* deletedAt of that one write and no publishedAt.
C24_OneDeleteWins ==
  \A c1, c2 \in Callers :
    (/\ c1 # c2
     /\ calls[c1].op = "deletePost" /\ calls[c2].op = "deletePost"
     /\ calls[c1].id = calls[c2].id
     /\ calls[c1].pc = "done" /\ calls[c2].pc = "done")
      => /\ {calls[c1].status, calls[c2].status} = {204, 404}
         /\ calls[c1].status = 204 =>
              /\ calls[c1].wrote # NullDate /\ calls[c2].wrote = NullDate
              /\ posts[calls[c1].id].status = "deleted"
              /\ posts[calls[c1].id].deletedAt = calls[c1].wrote
              /\ posts[calls[c1].id].publishedAt = NullDate

\* Both requests for post 1 have finished, the second one at a later clock
\* reading than the first.
C24_Witness ==
  /\ calls[1].op = "deletePost" /\ calls[2].op = "deletePost"
  /\ calls[1].id = 1 /\ calls[2].id = 1
  /\ calls[1].pc = "done" /\ calls[2].pc = "done"
  /\ calls[2].status = 204
  /\ res.op = "deletePost" /\ res.status = 404 /\ now > posts[1].deletedAt

(***************************************************************************)
(* C25.  Two concurrent deleteAuthor requests.                             *)
(***************************************************************************)
\* C25: when two deleteAuthor requests for one author, both made while the
\* author was active, have both finished and neither was refused for the
\* author's posts, one was answered 204 and the other 404, and exactly one
\* of them wrote the author's deletedAt.
C25_OneAuthorDeleteWins ==
  \A c1, c2 \in Callers :
    (/\ c1 # c2
     /\ calls[c1].op = "deleteAuthor" /\ calls[c2].op = "deleteAuthor"
     /\ calls[c1].id = calls[c2].id
     /\ calls[c1].pc = "done" /\ calls[c2].pc = "done"
     /\ calls[c1].status # 400 /\ calls[c2].status # 400)
      => /\ {calls[c1].status, calls[c2].status} = {204, 404}
         /\ calls[c1].status = 204 =>
              calls[c1].wrote # NullDate /\ calls[c2].wrote = NullDate

(***************************************************************************)
(* C26.  The window between deleteAuthor's count and its write.            *)
(***************************************************************************)
\* C26: when deleteAuthor's write follows its count with no write to the
\* posts in between, no post that is not deleted references the author it
\* has deleted; and whatever happens in between, a live post that
\* references the deleted author is not as it was when the posts were
\* counted.
C26_RaceNeedsInterleavedWrite ==
  [][\A c \in Callers :
       (/\ calls[c].op = "deleteAuthor"
        /\ calls[c].pc = "save" /\ calls'[c].pc = "done")
         => /\ authors'[calls[c].id].status = "deleted" /\ calls'[c].status = 204
            /\ posts = calls[c].data => activePostsCount(posts', calls[c].id) = 0
            /\ \A i \in 1..Len(calls[c].data) :
                 PostFound(posts', i) /\ posts'[i].author = calls[c].id =>
                   posts'[i] # calls[c].data[i]]_vars

\* deleteAuthor has succeeded for an author while a post that is not
\* deleted, created after the count, references that author.
C26_Witness ==
  \E c \in Callers :
    /\ calls[c].op = "deleteAuthor" /\ calls[c].pc = "done" /\ calls[c].status = 204
    /\ res.op = "deleteAuthor" /\ res.status = 204 /\ res.id = calls[c].id
    /\ authors[calls[c].id].status = "deleted"
    /\ \E i \in 1..Len(posts) :
         /\ i > Len(calls[c].data)
         /\ PostFound(posts, i) /\ posts[i].author = calls[c].id

C28_RoleAndActivationApart ==
  [][(res'.op \in {"updateUserRole", "deactivateUser"} /\ res'.id \in 1..Len(users)) =>
       /\ Len(users') = Len(users)
       /\ \A j \in 1..Len(users) : j # res'.id => users'[j] = users[j]
       /\ res'.op = "updateUserRole" =>
            /\ res'.status = 200
            /\ users'[res'.id] = [users[res'.id] EXCEPT !.role = users'[res'.id].role]
       /\ res'.op = "deactivateUser" =>
            users'[res'.id].role = users[res'.id].role]_vars

\* A registered user, deactivated earlier, has been made super_admin and
\* is still inactive with its deletion date.
C28_Witness ==
  /\ res.op = "updateUserRole" /\ res.status = 200 /\ res.id = 2
  /\ Len(users) = 2
  /\ users[2].role = "super_admin"
  /\ ~users[2].isActive /\ users[2].deletedAt # NullDate
  /\ users[1].isActive

(***************************************************************************)
(* C29.  Where a super_admin can come from.                                *)
(***************************************************************************)
\* C29: under requests made without a super_admin identity (register,
\* login with one's own password, and requests that present no token or
\* the token one was given), the seed user is the only stored super_admin
\* and no token with the role super_admin is issued or held.
C29_NoSelfMadeSuperAdmin ==
  /\ \A i \in 1..Len(users) :
       users[i].role = "super_admin" => users[i].email = SEED_USER.email
  /\ res.token # <<>> => res.token[1].role # "super_admin"
  /\ session # <<>> => session[1].role # "super_admin"

(***************************************************************************)
(* C30.  What a failed login tells.                                        *)
(***************************************************************************)
\* The users without those that hold the email.
Strangers(us, email) == SelectSeq(us, LAMBDA u : u.email # Lowercase(Trim(email)))

\* C30: a login with a wrong password for a stored email is answered as
\* the same login is answered when no stored user holds that email, with
\* status 401 and the same message, and changes nothing stored.
C30_LoginFailuresAlike ==
  [][\A data \in LoginPayloads :
       (/\ login(data)
        /\ \E i \in UsersByEmail(users, data.email) :
             ~bcryptCompare(data.password, users[i].password))
         => /\ UsersByEmail(Strangers(users, data.email), data.email) = {}
            /\ res' = loginResponse(Strangers(users, data.email), data, now)
            /\ res'.status = 401 /\ res'.error = "Invalid email or password"
            /\ res'.id = NoId /\ res'.token = <<>>
            /\ users' = users /\ authors' = authors /\ posts' = posts]_vars

\* A login with a wrong password for the email of a registered user has
\* been answered 401.
C30_Witness ==
  /\ res.op = "login" /\ res.status = 401 /\ res.error = "Invalid email or password"
  /\ Len(users) = 2
  /\ \E data \in LoginPayloads :
       /\ UsersByEmail(users, data.email) = {2}
       /\ ~bcryptCompare(data.password, users[2].password)
       /\ res = loginResponse(users, data, now)

====
